---- MODULE Spec2Model ----
(***************************************************************************)
(* A model of the codesearch index package (paths, delta coding, index     *)
(* writer, reader, merger) and of the byte DFA matcher.                    *)
(*                                                                         *)
(* Byte strings are sequences of byte values 0..255.  The 64-bit registers *)
(* of the delta coder are sequences of 64 bits, least significant first,   *)
(* so that shifts and overflow behave as in the code.                      *)
(***************************************************************************)
EXTENDS Integers, Sequences, FiniteSets, TLC

VARIABLES
    pathSeparator,  \* os.PathSeparator of the build: '/' or '\'
    writeVersion,   \* the package variable writeVersion: 1 or 2
    pt,             \* Path functions: the two paths and the results of Compare
    dc,             \* delta coding: a deltaWriter, its output and a deltaReader
    nm,             \* name list: PathWriter output and a PathReader over it
    iw,             \* an IndexWriter, the index it wrote and the reader's results
    mg,             \* Merge: the two source indexes and the merged index
    mt,             \* the DFA matcher and the buffer it runs over
    rd,             \* a reader of an index file whose offsets were overwritten
    ck,             \* Index.Check and the corruption it reports
    fs              \* the files on disk of an IndexWriter and of cindex

vars == <<pathSeparator, writeVersion, pt, dc, nm, iw, mg, mt, rd, ck, fs>>

\* the value of a part of the state that a specification does not exercise
Idle == [phase |-> "idle"]

(***************************************************************************)
(* Bounds of the model.                                                    *)
(***************************************************************************)
MaxPathLen == 3         \* longest path drawn for the Path functions
MaxDeltaVals == 3       \* longest sequence of values given to a deltaWriter

(***************************************************************************)
(* General helpers.                                                        *)
(***************************************************************************)
Min(a, b) == IF a < b THEN a ELSE b

BoundedSeq(S, n) == UNION {[1..k -> S] : k \in 0..n}

\* A loop of the code: Step applied to the loop's state until the state is
\* done, at most n times.
RECURSIVE Iterate(_, _, _)
Iterate(Step(_), s, n) ==
    IF n <= 0 \/ s.done THEN s
    ELSE IF n = 1 THEN Step(s)
    ELSE LET h == Iterate(Step, s, n \div 2)
         IN IF h.done THEN h ELSE Iterate(Step, h, n - (n \div 2))

\* s without its first n elements (Go's s[n:]).
Drop(s, n) == SubSeq(s, n + 1, Len(s))

\* the first n elements of s (Go's s[:n]).
Take(s, n) == SubSeq(s, 1, n)

(***************************************************************************)
(* Path (index/path.go).                                                   *)
(***************************************************************************)
Slash == 47

Backslash == 92

\* The byte Compare uses for a path byte: separators count as 0.
CompareByteNoSep(c) == c

CompareByte(c) == IF c = Slash \/ c = pathSeparator THEN 0 ELSE c

RECURSIVE CompareFrom(_, _, _)
CompareFrom(a, b, i) ==
    IF i > Min(Len(a), Len(b)) THEN Len(a) - Len(b)
    ELSE LET ai == CompareByte(a[i])
             bi == CompareByte(b[i])
         IN IF ai # bi THEN ai - bi ELSE CompareFrom(a, b, i + 1)

\* p.Compare(q)
Compare(a, b) == CompareFrom(a, b, 1)

\* strings.HasPrefix(s, prefix)
HasPrefix(s, prefix) ==
    Len(prefix) <= Len(s) /\ Take(s, Len(prefix)) = prefix

\* a prefix test that does not look at the byte after the prefix
HasPathPrefixAny(a, parent) == HasPrefix(a, parent)

\* p.HasPathPrefix(parent)
HasPathPrefix(a, parent) ==
    /\ HasPrefix(a, parent)
    /\ \/ a = parent
       \/ a[Len(parent) + 1] = Slash
       \/ a[Len(parent) + 1] = pathSeparator

(***************************************************************************)
(* 64-bit unsigned words: sequences of 64 bits, bit k of the word at index *)
(* k+1.  Shifts by 64 or more give 0, as for Go's uint64.                  *)
(***************************************************************************)
WordBits == 64

\* a word as an explicit sequence of its bits
Word(f) == SubSeq(f, 1, WordBits)

Zero64 == Word([i \in 1..WordBits |-> 0])

Pow2(n) == 2 ^ n

\* uint64(n) for 0 <= n < 2^31
FromInt(n) == Word([i \in 1..WordBits |-> IF i <= 31 THEN (n \div Pow2(i - 1)) % 2 ELSE 0])

\* the value of bits lo..hi of v
RECURSIVE ToIntBits(_, _, _)
ToIntBits(v, lo, hi) ==
    IF lo = hi THEN v[lo] * Pow2(lo - 1)
    ELSE ToIntBits(v, lo, (lo + hi) \div 2) + ToIntBits(v, (lo + hi) \div 2 + 1, hi)

\* int(v) for v < 2^31
ToInt(v) == ToIntBits(v, 1, 31)

Shl(v, n) == Word([i \in 1..WordBits |-> IF i - n >= 1 THEN v[i - n] ELSE 0])

Shr(v, n) == Word([i \in 1..WordBits |-> IF i + n <= WordBits THEN v[i + n] ELSE 0])

Or64(a, b) == Word([i \in 1..WordBits |-> IF a[i] = 1 \/ b[i] = 1 THEN 1 ELSE 0])

And64(a, b) == Word([i \in 1..WordBits |-> IF a[i] = 1 /\ b[i] = 1 THEN 1 ELSE 0])

\* 1<<n - 1
Mask64(n) == Word([i \in 1..WordBits |-> IF i <= n THEN 1 ELSE 0])

One64 == FromInt(1)

\* bits.TrailingZeros64(v)
TrailingZeros64(v) ==
    IF v = Zero64 THEN WordBits
    ELSE (CHOOSE i \in 1..WordBits : v[i] = 1 /\ \A j \in 1..(i - 1) : v[j] = 0) - 1

\* bits.Len64(v)
Len64(v) ==
    IF v = Zero64 THEN 0
    ELSE CHOOSE i \in 1..WordBits : v[i] = 1 /\ \A j \in (i + 1)..WordBits : v[j] = 0

\* v + 1, wrapping at 2^64
Inc64(v) ==
    LET k == TrailingZeros64(Word([i \in 1..WordBits |-> 1 - v[i]]))   \* first 0 bit
    IN Word([i \in 1..WordBits |-> IF i <= k THEN 0 ELSE IF i = k + 1 THEN 1 ELSE v[i]])

\* v - 1, wrapping at 0
Dec64(v) ==
    LET k == TrailingZeros64(v)                                   \* first 1 bit
    IN Word([i \in 1..WordBits |-> IF i <= k THEN 1 ELSE IF i = k + 1 THEN 0 ELSE v[i]])

\* int64(v) < 0
Negative64(v) == v[WordBits] = 1

\* byte(v)
LowByte(v) == ToInt(And64(v, Mask64(8)))

(***************************************************************************)
(* encoding/binary varints, as the index code calls them.                  *)
(***************************************************************************)
\* binary.PutUvarint / AppendUvarint of a 64-bit word
RECURSIVE PutUvarint(_)
PutUvarint(v) ==
    IF Shr(v, 7) # Zero64
    THEN <<LowByte(And64(v, Mask64(7))) + 128>> \o PutUvarint(Shr(v, 7))
    ELSE <<LowByte(v)>>

\* binary.Uvarint: [val, n]; n = 0 when buf is too short, n < 0 on overflow
RECURSIVE UvarintFrom(_, _, _, _)
UvarintFrom(buf, i, x, s) ==
    IF i >= Len(buf) THEN [val |-> Zero64, n |-> 0]
    ELSE IF i = 10 THEN [val |-> Zero64, n |-> -(i + 1)]
    ELSE LET b == buf[i + 1]
         IN IF b < 128
            THEN IF i = 9 /\ b > 1 THEN [val |-> Zero64, n |-> -(i + 1)]
                 ELSE [val |-> Or64(x, Shl(FromInt(b), s)), n |-> i + 1]
            ELSE UvarintFrom(buf, i + 1, Or64(x, Shl(FromInt(b % 128), s)), s + 7)

Uvarint(buf) == UvarintFrom(buf, 0, Zero64, 0)

\* The same two functions on values below 2^31, kept as integers.
RECURSIVE PutUvarintInt(_)
PutUvarintInt(n) ==
    IF n >= 128 THEN <<(n % 128) + 128>> \o PutUvarintInt(n \div 128)
    ELSE <<n>>

RECURSIVE UvarintIntFrom(_, _, _, _)
UvarintIntFrom(buf, i, x, m) ==
    IF i >= Len(buf) THEN [val |-> 0, n |-> 0]
    ELSE LET b == buf[i + 1]
         IN IF b < 128 THEN [val |-> x + b * m, n |-> i + 1]
            ELSE IF i >= 3 THEN [val |-> 0, n |-> -(i + 1)]   \* beyond the model's integers
            ELSE UvarintIntFrom(buf, i + 1, x + (b % 128) * m, m * 128)

UvarintInt(buf) == UvarintIntFrom(buf, 0, 0, 1)

(***************************************************************************)
(* Delta coding (index/delta.go).                                          *)
(***************************************************************************)
deltaZeroEnc == 16

\* a deltaWriter over an output byte sequence; ok is FALSE once it panicked
deltaWriterInit(out) == [out |-> out, b |-> Zero64, nb |-> 0, ok |-> TRUE]

RECURSIVE flushBits(_)
flushBits(w) ==
    IF w.nb >= 8
    THEN flushBits([w EXCEPT !.out = Append(w.out, LowByte(w.b)),
                             !.b = Shr(w.b, 8),
                             !.nb = w.nb - 8])
    ELSE w

flushBitsIf(w) == IF w.nb >= 8 THEN flushBits(w) ELSE w

\* the zero bits, the marker bit and the low bits of x, as writeBits lays them out
writeBitsTail(w, x, lg) ==
    LET high == lg > 32
        w1 == IF high
              THEN flushBits([w EXCEPT !.b = Or64(w.b, Shl(And64(x, Mask64(32)), w.nb)),
                                       !.nb = w.nb + 32])
              ELSE w
        x1 == IF high THEN Shr(x, 32) ELSE x
        lg1 == IF high THEN lg - 32 ELSE lg
    IN flushBitsIf([w1 EXCEPT !.b = Or64(w1.b, Shl(x1, w1.nb)),
                              !.nb = w1.nb + lg1])

writeBits(w, x) ==
    IF Negative64(x) \/ x = Zero64 THEN [w EXCEPT !.ok = FALSE]   \* panic("bad gamma write")
    ELSE LET lg == Len64(x) - 1
             w1 == flushBitsIf([w EXCEPT !.nb = w.nb + lg])
             w2 == [w1 EXCEPT !.b = Or64(w1.b, Shl(One64, w1.nb)), !.nb = w1.nb + 1]
         IN writeBitsTail(w2, And64(x, Mask64(lg)), lg)

\* x >= deltaZeroEnc for the signed value of x
AtLeastZeroEnc(x) ==
    ~Negative64(x) /\ \E i \in 1..WordBits : x[i] = 1 /\ Pow2(Min(i - 1, 30)) >= deltaZeroEnc

\* a Write that codes 16 and more as they are
deltaWritePlain(w, x, v) ==
    IF v = 2
    THEN writeBits(w, IF x = Zero64 THEN FromInt(deltaZeroEnc) ELSE x)
    ELSE [w EXCEPT !.out = w.out \o PutUvarint(x)]

\* deltaWriter.Write under writeVersion v
deltaWrite(w, x, v) ==
    IF v = 2
    THEN writeBits(w, IF x = Zero64 THEN FromInt(deltaZeroEnc)
                      ELSE IF AtLeastZeroEnc(x) THEN Inc64(x) ELSE x)
    ELSE [w EXCEPT !.out = w.out \o PutUvarint(x)]

\* deltaWriter.Flush
deltaFlush(w) ==
    LET w1 == flushBits(w)
        w2 == IF w1.nb > 0 THEN [w1 EXCEPT !.out = Append(w1.out, LowByte(w1.b))] ELSE w1
    IN [w2 EXCEPT !.b = Zero64, !.nb = 0]

\* a deltaReader over data; st is "ok", "corrupt" (corrupt() was called) or
\* "panic" (a Go run-time panic)
deltaReaderInit(data) == [d |-> data, b |-> Zero64, nb |-> 0, st |-> "ok"]

clearBits(r) == [r EXCEPT !.b = Zero64, !.nb = 0]

\* next64: the loop over all-zero bytes
RECURSIVE next64Zeros(_, _)
next64Zeros(r, lg) ==
    IF r.b # Zero64 THEN [r |-> r, lg |-> lg]
    ELSE IF Len(r.d) = 0 \/ lg + r.nb > 65 THEN [r |-> [r EXCEPT !.st = "corrupt"], lg |-> lg]
    ELSE next64Zeros([r EXCEPT !.b = FromInt(r.d[1]), !.nb = 8, !.d = Tail(r.d)], lg + r.nb)

\* next64: the loop gathering the low bits of the value
RECURSIVE next64Bits(_, _, _, _)
next64Bits(r, x, nb, lg) ==
    IF r.nb < lg
    THEN LET x1 == Or64(x, Shl(r.b, nb))
             nb1 == nb + r.nb
             lg1 == lg - r.nb
         IN IF Len(r.d) = 0 \/ nb1 > 64
            THEN [r |-> [r EXCEPT !.st = "corrupt"], val |-> x1]
            ELSE next64Bits([r EXCEPT !.b = FromInt(r.d[1]), !.nb = 8, !.d = Tail(r.d)],
                            x1, nb1, lg1)
    ELSE [r |-> [r EXCEPT !.b = Shr(r.b, lg), !.nb = r.nb - lg],
          val |-> Or64(x, Shl(And64(r.b, Mask64(lg)), nb))]

next64(r) ==
    LET Bits(z, nb) ==
            next64Bits([z.r EXCEPT !.b = Shr(z.r.b, nb + 1), !.nb = z.r.nb - (nb + 1)],
                       Shl(One64, z.lg + nb), 0, z.lg + nb)
        Rest(z) == IF z.r.st # "ok" THEN [r |-> z.r, val |-> Zero64]
                   ELSE Bits(z, TrailingZeros64(z.r.b))
    IN Rest(next64Zeros(r, 0))

\* the value next returns for the coded value i (version 2)
deltaDecodeSame(i) == i

deltaDecode(i) ==
    IF i = FromInt(deltaZeroEnc) THEN Zero64
    ELSE IF AtLeastZeroEnc(i) THEN Dec64(i) ELSE i

\* deltaReader.next for an index of version v: [r, val]
deltaNext(r, v) ==
    LET V2(n) == [r |-> n.r, val |-> deltaDecode(n.val)]
        V1(u) == IF u.n < 0 THEN [r |-> [r EXCEPT !.st = "panic"], val |-> Zero64]   \* r.d[n:]
                 ELSE IF u.n = 0     \* uint64(int(v)) != v never holds for a 64-bit int
                 THEN [r |-> [r EXCEPT !.d = Drop(r.d, u.n), !.st = "corrupt"], val |-> Zero64]
                 ELSE [r |-> [r EXCEPT !.d = Drop(r.d, u.n)], val |-> u.val]
    IN IF v = 2 THEN V2(next64(r)) ELSE V1(Uvarint(r.d))

(***************************************************************************)
(* Buffer writes (index/write.go).                                         *)
(***************************************************************************)
\* the n big-endian bytes of x, for 0 <= x < 2^31
BigEndian(x, n) == [i \in 1..n |-> IF n - i <= 3 THEN (x \div Pow2(8 * (n - i))) % 256 ELSE 0]

\* Buffer.WriteUint under writeVersion v
WriteUint(x, v) == IF v = 1 THEN BigEndian(x, 4) ELSE BigEndian(x, 8)

\* Buffer.WriteTrigram
WriteTrigram(t) == <<(t \div 65536) % 256, (t \div 256) % 256, t % 256>>

\* Buffer.Align: buf with the padding that Align(n) adds
Align(buf, n, v) ==
    IF v = 1 THEN buf
    ELSE buf \o [i \in 1..((n - (Len(buf) % n)) % n) |-> 0]

(***************************************************************************)
(* PathWriter and PathReader (index/path.go).                              *)
(***************************************************************************)
\* NewPathWriter over a data buffer and an index buffer (hasIndex is FALSE
\* for a nil index)
NewPathWriter(data, index, hasIndex, version, group) ==
    [data |-> data, index |-> index, hasIndex |-> hasIndex, version |-> version,
     group |-> group, start |-> Len(data), n |-> 0, last |-> <<>>]

RECURSIVE CommonPrefix(_, _, _)
CommonPrefix(a, b, pre) ==
    IF pre < Len(a) /\ pre < Len(b) /\ a[pre + 1] = b[pre + 1]
    THEN CommonPrefix(a, b, pre + 1)
    ELSE pre

\* w.Write(p), with Buffer.WriteUint under writeVersion v
PathWrite(w, p, v) ==
    LET entry == IF w.hasIndex THEN w.index \o WriteUint(Len(w.data) - w.start, v)
                 ELSE w.index
    IN IF w.version = 1
       THEN [w EXCEPT !.index = entry, !.data = w.data \o p \o <<0>>]
       ELSE LET first == \/ w.group = 0 /\ w.n = 0
                         \/ w.group > 0 /\ w.n % w.group = 0
                pre == IF first THEN 0 ELSE CommonPrefix(w.last, p, 0)
            IN [w EXCEPT !.index = IF first THEN entry ELSE w.index,
                         !.data = w.data \o PutUvarintInt(pre)
                                         \o PutUvarintInt(Len(p) - pre)
                                         \o Drop(p, pre),
                         !.last = p,
                         !.n = w.n + 1]

\* w.Collect(paths)
PathCollect(w, paths, v) ==
    Iterate(LAMBDA s : [w |-> PathWrite(s.w, paths[s.i], v), i |-> s.i + 1,
                        done |-> s.i = Len(paths)],
            [w |-> w, i |-> 1, done |-> paths = <<>>], Len(paths)).w

\* bytes.IndexByte(s, c), 0-based, -1 when c is not in s
IndexByte(s, c) ==
    IF \E i \in 1..Len(s) : s[i] = c
    THEN (CHOOSE i \in 1..Len(s) : s[i] = c /\ \A j \in 1..(i - 1) : s[j] # c) - 1
    ELSE -1

\* r.Next(); ok is the value Next returns
PathNext(r) ==
    LET V1(r1, i) == IF i <= 0 THEN [r1 EXCEPT !.path = <<>>, !.ok = FALSE]
                     ELSE [r1 EXCEPT !.path = Take(r1.data, i),
                                     !.data = Drop(r1.data, i + 1), !.ok = TRUE]
        Suffix(r1, pre, d1, n) ==
            IF pre.n <= 0 \/ pre.val > Len(r1.path) THEN [r1 EXCEPT !.path = <<>>, !.ok = FALSE]
            ELSE IF n.n <= 0 \/ n.val > Len(d1) - n.n
            THEN [r1 EXCEPT !.path = <<>>, !.ok = FALSE, !.data = d1]
            ELSE [r1 EXCEPT !.path = Take(r1.path, pre.val) \o SubSeq(d1, n.n + 1, n.n + n.val),
                            !.data = Drop(d1, n.n + n.val), !.ok = TRUE]
        Prefix(r1, pre, d1) == Suffix(r1, pre, d1, UvarintInt(d1))
        V2(r1, pre) == Prefix(r1, pre, Drop(r1.data, pre.n))
        Read(r1) == IF r.version = 1 THEN V1(r1, IndexByte(r1.data, 0))
                    ELSE V2(r1, UvarintInt(r1.data))
    IN IF r.limit = 0 THEN [r EXCEPT !.path = <<>>, !.ok = FALSE]
       ELSE Read(IF r.limit > 0 THEN [r EXCEPT !.limit = r.limit - 1] ELSE r)

NewPathReader(version, data, limit) ==
    PathNext([version |-> version, data |-> data, path |-> <<>>, limit |-> limit,
              ok |-> FALSE, st |-> "ok"])

\* r.Valid()
PathValid(r) == r.path # <<>>

\* the paths that r.All() yields, r holding at most n more paths
PathAll(r, n) ==
    Iterate(LAMBDA s : LET Yield(r1) == [r |-> r1, out |-> Append(s.out, s.r.path),
                                         done |-> ~r1.ok]
                       IN Yield(PathNext(s.r)),
            [r |-> r, out |-> <<>>, done |-> ~PathValid(r)], n).out

(***************************************************************************)
(* Posting entries and the posting-list writer.  postDataWriter is not in  *)
(* the source tree; it is written from the format description: a list is   *)
(* trigram[3], the coded deltas and a 0 delta; a version 2 index entry is  *)
(* trigram[3], varint count, varint offset delta, packed into blocks of    *)
(* postBlockSize bytes; a version 1 entry is trigram[3], count, offset.    *)
(***************************************************************************)
invalidTrigram == 16777215

postBlockSize == 256

nameGroupSize == 16

makePostEntry(trigram, fileid) == <<trigram, fileid>>

\* p < q for two postEntry values (trigram in the high bits)
PostEntryLess(p, q) == p[1] < q[1] \/ (p[1] = q[1] /\ p[2] < q[2])

postDataWriterInit(out, hasIndex, v) ==
    [dw |-> deltaWriterInit(out), base |-> Len(out), hasIndex |-> hasIndex,
     index |-> <<>>, block |-> <<>>, blockOff |-> 0, v |-> v,
     t |-> 0, count |-> 0, offset |-> 0, last |-> -1, numTrigram |-> 0]

\* w.trigram(t)
postTrigram(w, t) ==
    [w EXCEPT !.offset = Len(w.dw.out) - w.base,
              !.dw = [w.dw EXCEPT !.out = w.dw.out \o WriteTrigram(t)],
              !.t = t, !.count = 0, !.last = -1]

\* w.fileid(id)
postFileid(w, id) ==
    [w EXCEPT !.dw = deltaWrite(w.dw, FromInt(id - w.last), w.v),
              !.last = id, !.count = w.count + 1]

\* the index entry of the list just ended
postIndexEntryV2(w, from) ==
    WriteTrigram(w.t) \o PutUvarintInt(w.count) \o PutUvarintInt(w.offset - from)

\* w.endTrigram()
postEndTrigram(w) ==
    LET e == postIndexEntryV2(w, w.blockOff)
        full == w.block # <<>> /\ Len(w.block) + Len(e) > postBlockSize
    IN [w EXCEPT !.dw = deltaFlush(deltaWrite(w.dw, Zero64, w.v)),
                 !.numTrigram = w.numTrigram + 1,
                 !.index = IF ~w.hasIndex THEN w.index
                           ELSE IF w.v = 1
                           THEN w.index \o WriteTrigram(w.t) \o BigEndian(w.count, 4)
                                    \o BigEndian(w.offset, 4)
                           ELSE IF full THEN w.index \o Align(w.block, postBlockSize, 2)
                           ELSE w.index,
                 !.block = IF ~w.hasIndex \/ w.v = 1 THEN w.block
                           ELSE IF full THEN postIndexEntryV2(w, 0) ELSE w.block \o e,
                 !.blockOff = IF ~w.hasIndex \/ w.v = 1 THEN w.blockOff ELSE w.offset]

\* w.flush()
postFlush(w) ==
    [w EXCEPT !.index = w.index \o Align(w.block, postBlockSize, 2), !.block = <<>>]

(***************************************************************************)
(* IndexWriter (index/write.go).                                           *)
(***************************************************************************)
maxFileLen == 1073741824

maxLineLen == 2000

maxTextTrigrams == 20000

\* the three limits of add
Limits == [file |-> maxFileLen, line |-> maxLineLen, trigrams |-> maxTextTrigrams]

\* isValidName
isValidName(name) == name # <<>> /\ \A i \in 1..Len(name) : name[i] >= 32

\* every byte pair taken for valid
validUTF8Any(c1, c2) == TRUE

\* validUTF8(c1, c2)
validUTF8(c1, c2) ==
    IF c1 < 128 THEN c2 < 128 \/ (192 <= c2 /\ c2 < 248)
    ELSE IF c1 < 192 THEN c2 < 248
    ELSE IF c1 < 248 THEN 128 <= c2 /\ c2 < 192
    ELSE FALSE

\* sparse.Set.Add: the members in the order they were first added
SetAdd(dense, x) == IF \E i \in 1..Len(dense) : dense[i] = x THEN dense ELSE Append(dense, x)

\* one round of the read loop of add, on the byte f[s.i], under the limits lim
ScanStep(s, f, lim) ==
    LET c == f[s.i]
        tv == ((s.tv % 65536) * 256) + c
        tris == IF s.i >= 3 THEN SetAdd(s.tris, tv) ELSE s.tris
        linelen == s.linelen + 1
        skip == \/ c = 0
                \/ ~validUTF8((tv \div 256) % 256, tv % 256)
                \/ s.i > lim.file
                \/ linelen > lim.line
    IN [i |-> s.i + 1, tv |-> tv, linelen |-> IF c = 10 THEN 0 ELSE linelen,
        tris |-> tris, skip |-> skip, done |-> skip \/ s.i = Len(f)]

\* the scan of add over the bytes of f under the limits lim: the trigrams
\* of the file, and whether a skip condition rejects it
ScanFileLim(f, lim) ==
    LET s == Iterate(LAMBDA t : ScanStep(t, f, lim),
                     [i |-> 1, tv |-> 0, linelen |-> 0, tris |-> <<>>, skip |-> FALSE,
                      done |-> f = <<>>], Len(f))
    IN [skip |-> s.skip \/ Len(s.tris) > lim.trigrams, tris |-> s.tris]

\* the scan of add over the bytes of f
ScanFile(f) == ScanFileLim(f, Limits)

\* one counting-sort round of sortPost on the 12-bit digit (trigram / div) % 4096
RadixPass(post, div) ==
    Iterate(LAMBDA s : LET r == CHOOSE x \in s.digits : \A y \in s.digits : x <= y
                       IN [out |-> s.out \o SelectSeq(post, LAMBDA p : (p[1] \div div) % 4096 = r),
                           digits |-> s.digits \ {r}, done |-> s.digits = {r}],
            [out |-> <<>>, digits |-> {(post[i][1] \div div) % 4096 : i \in 1..Len(post)},
             done |-> post = <<>>], Len(post)).out

\* sortPost
sortPost(post) == RadixPass(RadixPass(post, 1), 4096)

\* one round of the loop of flushPost, on the entry post[s.i]
WritePostStep(s, post) ==
    LET p == post[s.i]
    IN [w |-> postFileid(IF p[1] = s.trigram THEN s.w
                         ELSE postTrigram(IF s.trigram # invalidTrigram
                                          THEN postEndTrigram(s.w) ELSE s.w, p[1]),
                         p[2]),
        trigram |-> p[1], i |-> s.i + 1, done |-> s.i = Len(post)]

\* ix.flushPost()
flushPost(ix, v) ==
    LET Done(out) == [ix EXCEPT !.postFile = out, !.post = <<>>,
                                !.postEnds = Append(ix.postEnds, Len(out))]
        End(s) == Done(IF s.trigram # invalidTrigram THEN postEndTrigram(s.w).dw.out
                       ELSE s.w.dw.out)
        Lists(post) ==
            End(Iterate(LAMBDA t : WritePostStep(t, post),
                        [w |-> postDataWriterInit(ix.postFile, FALSE, v),
                         trigram |-> invalidTrigram, i |-> 1, done |-> post = <<>>],
                        Len(post)))
    IN Lists(sortPost(ix.post))

\* allPostReader.next: one entry appended to s.out, or done at the end of the data
allPostNext(s, v) ==
    LET Entry(x, delta) ==
            IF x.r.st # "ok" THEN [s EXCEPT !.r = x.r, !.done = TRUE]
            ELSE IF delta = 0
            THEN [s EXCEPT !.r = clearBits(x.r), !.trigram = invalidTrigram]
            ELSE [s EXCEPT !.r = x.r, !.fileid = s.fileid + delta,
                           !.out = Append(s.out, makePostEntry(s.trigram, s.fileid + delta))]
        Delta(x) == Entry(x, ToInt(x.val))
    IN IF s.trigram = invalidTrigram
       THEN IF Len(s.r.d) < 3 THEN [s EXCEPT !.done = TRUE]
            ELSE [s EXCEPT !.r = [s.r EXCEPT !.d = Drop(s.r.d, 3)],
                           !.trigram = s.r.d[1] * 65536 + s.r.d[2] * 256 + s.r.d[3],
                           !.fileid = -1]
       ELSE Delta(deltaNext(s.r, v))

\* the entries that an allPostReader over data returns
AllPost(data, v) ==
    Iterate(LAMBDA s : allPostNext(s, v),
            [r |-> deltaReaderInit(data), trigram |-> invalidTrigram, fileid |-> -1,
             out |-> <<>>, done |-> FALSE], 8 * Len(data) + 1).out

Swap(ch, i, j) == [ch EXCEPT ![i] = ch[j], ![j] = ch[i]]

\* a siftDown that leaves the heap as it is
siftDownNone(ch, i) == ch

\* h.siftDown(i), on the slice ch with 0-based positions
RECURSIVE siftDown(_, _)
siftDown(ch, i) ==
    LET j1 == 2 * i + 1
        j2 == j1 + 1
        j == IF j2 < Len(ch) /\ ~PostEntryLess(ch[j1 + 1].e, ch[j2 + 1].e) THEN j2 ELSE j1
    IN IF j1 >= Len(ch) THEN ch
       ELSE IF PostEntryLess(ch[i + 1].e, ch[j + 1].e) THEN ch
       ELSE siftDown(Swap(ch, i + 1, j + 1), j)

\* h.siftUp(j)
RECURSIVE siftUp(_, _)
siftUp(ch, j) ==
    LET i == IF j = 0 THEN 0 ELSE (j - 1) \div 2
    IN IF i = j \/ PostEntryLess(ch[i + 1].e, ch[j + 1].e) THEN ch
       ELSE siftUp(Swap(ch, i + 1, j + 1), i)

\* h.add(next) for a chunk holding the given entries
heapAdd(ch, entries) ==
    LET Up(ch1) == IF Len(ch1) >= 2 THEN siftUp(ch1, Len(ch)) ELSE ch1
    IN IF entries = <<>> THEN ch
       ELSE Up(Append(ch, [e |-> Head(entries), rest |-> Tail(entries)]))

\* h.addFile(w, ends)
heapAddFile(data, ends, v) ==
    Iterate(LAMBDA s : [ch |-> heapAdd(s.ch, AllPost(SubSeq(data, s.start + 1, ends[s.i]), v)),
                        start |-> ends[s.i], i |-> s.i + 1, done |-> s.i = Len(ends)],
            [ch |-> <<>>, start |-> 0, i |-> 1, done |-> ends = <<>>], Len(ends)).ch

\* h.next(): the heap afterwards and the entry returned
heapNext(ch) ==
    LET c == ch[1]
        n == Len(ch) - 1
    IN IF Len(ch) = 0 THEN [ch |-> ch, e |-> makePostEntry(invalidTrigram, 0)]
       ELSE [e |-> c.e,
             ch |-> IF c.rest = <<>> /\ n <= 1 THEN Take([ch EXCEPT ![1] = ch[n + 1]], n)
                    ELSE siftDown(IF c.rest = <<>> THEN Take([ch EXCEPT ![1] = ch[n + 1]], n)
                                  ELSE [ch EXCEPT ![1] = [e |-> Head(c.rest),
                                                          rest |-> Tail(c.rest)]], 0)]

\* one round of the loops of mergePost: an entry of the current trigram goes
\* to its list; any other entry ends the list and starts the next one
mergePostStep(s) ==
    LET Next(h) == [s EXCEPT !.w = postFileid(s.w, s.e[2]), !.ch = h.ch, !.e = h.e]
        End(w) == IF s.t = invalidTrigram THEN [s EXCEPT !.w = w, !.done = TRUE]
                  ELSE [s EXCEPT !.w = postTrigram(w, s.e[1]), !.t = s.e[1]]
    IN IF s.e[1] = s.t /\ s.t # invalidTrigram THEN Next(heapNext(s.ch))
       ELSE End(postEndTrigram(s.w))

\* ix.mergePost(out): the postDataWriter when mergePost returns
mergePost(ix, out, v) ==
    LET Lists(h, n) ==
            postFlush(Iterate(mergePostStep,
                              [w |-> postTrigram(postDataWriterInit(out, TRUE, v), h.e[1]),
                               ch |-> h.ch, e |-> h.e, t |-> h.e[1], done |-> FALSE], n).w)
        Heap(post) == Lists(heapNext(heapAdd(heapAddFile(ix.postFile, ix.postEnds, v), post)),
                            3 * (Len(post) + Len(ix.postFile)) + 3)
    IN Heap(sortPost(ix.post))

magicV1 == <<99, 115, 101, 97, 114, 99, 104, 32, 105, 110, 100, 101, 120, 32, 49, 10>>

magicV2 == <<99, 115, 101, 97, 114, 99, 104, 32, 105, 110, 100, 101, 120, 32, 50, 10>>

trailerMagicV1 == <<10, 99, 115, 101, 97, 114, 99, 104, 32, 116, 114, 97, 105, 108, 114, 10>>

trailerMagicV2 == <<10, 99, 115, 101, 97, 114, 99, 104, 32, 116, 114, 108, 114, 32, 50, 10>>

\* Create(file) under writeVersion v; cap is cap(ix.post); fatal is TRUE
\* once log.Fatalf has ended the process
Create(v, cap) ==
    [roots |-> <<>>, names |-> NewPathWriter(<<>>, <<>>, TRUE, v, nameGroupSize),
     numName |-> 0, nameLast |-> <<>>, post |-> <<>>, cap |-> cap, postFile |-> <<>>,
     postEnds |-> <<>>, main |-> <<>>, fatal |-> FALSE, totalBytes |-> 0]

\* ix.AddRoots(roots)
AddRoots(ix, roots) == [ix EXCEPT !.roots = ix.roots \o roots]

\* ix.addName(name)
addName(ix, name, v) ==
    IF v = 2 /\ (name = <<>> \/ Compare(name, ix.nameLast) <= 0)
    THEN [ix EXCEPT !.fatal = TRUE]
    ELSE [ix EXCEPT !.numName = ix.numName + 1, !.names = PathWrite(ix.names, name, v)]

\* the loop of add that appends one entry for each trigram of the file
AppendPost(ix, tris, fileid, v) ==
    Iterate(LAMBDA s :
                LET Put(ix1) == [ix |-> [ix1 EXCEPT !.post = Append(ix1.post,
                                                        makePostEntry(tris[s.i], fileid))],
                                 i |-> s.i + 1, done |-> s.i = Len(tris)]
                IN Put(IF Len(s.ix.post) >= s.ix.cap THEN flushPost(s.ix, v) ELSE s.ix),
            [ix |-> ix, i |-> 1, done |-> tris = <<>>], Len(tris)).ix

\* an add that counts the bytes of a file before the check of its trigrams
addLimCounted(ix, name, f, v, lim) ==
    LET Named(s, ix1) == IF ix1.fatal THEN ix1 ELSE AppendPost(ix1, s.tris, ix.numName, v)
        Counted(s, ix1) == IF s.skip THEN ix1 ELSE Named(s, addName(ix1, name, v))
    IN Counted(ScanFileLim(f, lim), [ix EXCEPT !.totalBytes = ix.totalBytes + Len(f)])

\* ix.add(name, f) under the limits lim
addLim(ix, name, f, v, lim) ==
    LET Named(s, ix1) == IF ix1.fatal THEN ix1 ELSE AppendPost(ix1, s.tris, ix.numName, v)
        Scanned(s) ==
            IF s.skip THEN ix
            ELSE Named(s, addName([ix EXCEPT !.totalBytes = ix.totalBytes + Len(f)], name, v))
    IN Scanned(ScanFileLim(f, lim))

\* ix.add(name, f)
add(ix, name, f, v) == addLim(ix, name, f, v, Limits)

\* ix.Add(name, f), for an IndexWriter that does not open zip files
Add(ix, name, f, v) == IF isValidName(name) THEN add(ix, name, f, v) ELSE ix

\* ix.Add(name, f) under the limits lim
AddLim(ix, name, f, v, lim) == IF isValidName(name) THEN addLim(ix, name, f, v, lim) ELSE ix

\* the error Add returns for a reader that fails with io.EOF only
AddErr(name) == IF isValidName(name) THEN "nil" ELSE "malformed name"

\* ix.Flush()
Flush(ix0, v) ==
    LET magic == IF v = 1 THEN magicV1 ELSE magicV2
        U(x) == WriteUint(x, v)
        \* off lists pathData, numPath, nameData, numName, postData, numTrigram,
        \* nameIndex and postIndex; m holds the bytes written so far
        Trailer(ix, off, m) ==
            [ix EXCEPT !.post = sortPost(ix.post),
                       !.main = m \o (IF v = 1
                                      THEN U(off[1]) \o U(off[3]) \o U(off[5]) \o U(off[7])
                                               \o U(off[8]) \o trailerMagicV1
                                      ELSE U(off[1]) \o U(off[2]) \o U(off[3]) \o U(off[4])
                                               \o U(off[5]) \o U(off[6]) \o U(off[7])
                                               \o U(off[8]) \o trailerMagicV2)]
        PostIndex(ix, off, w, m) == Trailer(ix, off \o <<Len(m)>>, m \o w.index)
        NameIndex(ix, off, w, m) ==
            PostIndex(ix, off \o <<Len(m)>>, w, Align(m \o ix.names.index, 16, v))
        Posts(ix, off, w) == NameIndex(ix, off \o <<w.numTrigram>>, w, Align(w.dw.out, 16, v))
        NameList(ix, off, m) == Posts(ix, off \o <<ix.numName, Len(m)>>, mergePost(ix, m, v))
        RootList(ix, n, m) ==
            NameList(ix, <<Len(magic), n, Len(m)>>, Align(m \o ix.names.data, 16, v))
        RootsEnd(ix, roots) == RootList(ix, roots.n, Align(roots.data, 16, v))
        RootsV1(ix, roots) == RootsEnd(ix, IF v = 1 THEN PathWrite(roots, <<>>, v) ELSE roots)
        Start(ix) ==
            RootsV1(ix, PathCollect(NewPathWriter(magic, <<>>, FALSE, v, 0), ix.roots, v))
    IN Start(IF v = 1 THEN addName(ix0, <<>>, v) ELSE ix0)

(***************************************************************************)
(* Index reader (index/read.go).  A result's st is "ok", "corrupt" when    *)
(* the code calls ix.corrupt(), or "panic" for a Go run-time panic.        *)
(***************************************************************************)
\* a / b as Go divides ints, for b > 0
GoDiv(a, b) == IF a >= 0 THEN a \div b ELSE -((-a) \div b)

\* the big-endian n-byte value at offset off of d, as ix.uint32 (n = 4) and
\* ix.uint64 (n = 8) return it: -1 when they call corrupt(); a value of
\* 2^24 or more, which lies far past the end of every file written here, is
\* returned as 2^24
UintAt(d, off, n) ==
    IF off < 0 \/ off + n > Len(d) THEN -1
    ELSE LET b == SubSeq(d, off + 1, off + n)
         IN IF n = 8 /\ b[1] >= 128 THEN -1
            ELSE IF b[n - 3] >= 1 \/ \E i \in 1..(n - 4) : b[i] # 0 THEN 16777216
            ELSE b[n - 3] * 16777216 + b[n - 2] * 65536 + b[n - 1] * 256 + b[n]

\* Open(file) for a file holding the bytes d
Open(d) ==
    LET magic == SubSeq(d, Len(d) - 15, Len(d))
        v == IF magic = trailerMagicV1 THEN 1 ELSE IF magic = trailerMagicV2 THEN 2 ELSE 0
        n == Len(d) - 16 - (IF v = 1 THEN 20 ELSE 64)
        u(k) == IF v = 1 THEN UintAt(d, n + 4 * k, 4) ELSE UintAt(d, n + 8 * k, 8)
        Fields(f) ==
            [ok |-> \A k \in 1..8 : f[k] >= 0 \/ (v = 1 /\ k = 2),
             d |-> d, version |-> v,
             pathData |-> f[1], numPath |-> f[2], nameData |-> f[3],
             numName |-> IF v = 1 THEN GoDiv(f[8] - f[7], 4) - 1 ELSE f[4],
             postData |-> f[5],
             numPost |-> IF v = 1 THEN GoDiv(n - f[8], 11) ELSE f[6],
             nameIndex |-> f[7], postIndex |-> f[8],
             numPostBlock |-> IF v = 1 THEN 0 ELSE GoDiv(n - f[8], postBlockSize)]
    IN IF Len(d) < 16 \/ v = 0 \/ n < 0
       THEN [ok |-> FALSE, d |-> d, version |-> v]
       ELSE Fields(IF v = 1 THEN <<u(0), -1, u(1), 0, u(2), 0, u(3), u(4)>>
                   ELSE <<u(0), u(1), u(2), u(3), u(4), u(5), u(6), u(7)>>)

\* ix.slice(off, n)
slice(ix, off, n) ==
    IF off < 0 THEN [st |-> "corrupt", b |-> <<>>]
    ELSE IF n < 0
    THEN IF off > Len(ix.d) THEN [st |-> "panic", b |-> <<>>]
         ELSE [st |-> "ok", b |-> Drop(ix.d, off)]
    ELSE IF off + n > Len(ix.d) THEN [st |-> "corrupt", b |-> <<>>]
    ELSE [st |-> "ok", b |-> SubSeq(ix.d, off + 1, off + n)]

\* ix.Roots()
Roots(ix) ==
    NewPathReader(ix.version, slice(ix, ix.pathData, ix.nameData - ix.pathData).b, ix.numPath)

\* no name skipped after the start of the group
nameSkipNone(ix, min) == 0

\* the number of names NamesAt reads and drops to get from the start of the
\* group to min
nameSkip(ix, min) == IF ix.version = 1 THEN 0 ELSE min % nameGroupSize

\* ix.NamesAt(min, max); st is the status of the reads of the index
NamesAt(ix, min, max) ==
    LET Skip(s, r, skip) ==
            [Iterate(LAMBDA t : [r |-> PathNext(t.r), k |-> t.k + 1, done |-> t.k + 1 = skip],
                     [r |-> r, k |-> 0, done |-> skip = 0], skip).r
             EXCEPT !.st = s.st]
        Data(s, skip) == Skip(s, NewPathReader(ix.version, s.b, max - min + skip), skip)
        At(off) == IF off < 0 THEN [NewPathReader(1, <<>>, 0) EXCEPT !.st = "corrupt"]
                   ELSE Data(slice(ix, ix.nameData + off, ix.postData - (ix.nameData + off)),
                             nameSkip(ix, min))
    IN IF min >= ix.numName THEN NewPathReader(1, <<>>, 0)
       ELSE At(UintAt(ix.d, ix.nameIndex + (IF ix.version = 1 THEN min * 4
                                            ELSE GoDiv(min, nameGroupSize) * 8),
                      IF ix.version = 1 THEN 4 ELSE 8))

\* ix.Name(fileid)
Name(ix, fileid) == NamesAt(ix, fileid, fileid + 1).path

\* the paths that ix.Names(lo, hi) yields
Names(ix, lo, hi) ==
    LET Limit(r) == IF PathValid(r) THEN [r EXCEPT !.limit = hi - lo - 1] ELSE r
    IN PathAll(Limit(NamesAt(ix, lo, hi)), hi - lo + 1)

\* sort.Search(n, f): the binary search over [lo, hi)
RECURSIVE Search(_, _, _)
Search(f(_), lo, hi) ==
    IF lo >= hi THEN lo
    ELSE LET h == lo + ((hi - lo) \div 2)
         IN IF f(h) THEN Search(f, lo, h) ELSE Search(f, h + 1, hi)

\* a trigram read without its last byte
TrigramAtHigh(b, off) == b[off + 1] * 65536 + b[off + 2] * 256

\* the trigram held in the three bytes of b from offset off
TrigramAt(b, off) == b[off + 1] * 65536 + b[off + 2] * 256 + b[off + 3]

\* ix.postIndexEntry(i), format v1
postIndexEntry(ix, i) ==
    LET Entry(d) == IF d.st # "ok" THEN [st |-> d.st, trigram |-> 0, count |-> 0, offset |-> 0]
                    ELSE [st |-> "ok", trigram |-> TrigramAt(d.b, 0),
                          count |-> UintAt(d.b, 3, 4), offset |-> UintAt(d.b, 7, 4)]
    IN Entry(slice(ix, ix.postIndex + i * 11, 11))

\* one round of the walk of findListV2 over the posting index block s.b
findListStep(s, trigram) ==
    LET Entry(c, o) ==
            IF c.n < 0 \/ o.n < 0 THEN [s EXCEPT !.st = "corrupt", !.done = TRUE]
            ELSE IF TrigramAt(s.b, 0) = trigram
            THEN [s EXCEPT !.count = c.val, !.offset = s.offset + o.val, !.done = TRUE]
            ELSE [s EXCEPT !.offset = s.offset + o.val, !.b = Drop(s.b, 3 + c.n + o.n)]
        Count(c) == Entry(c, UvarintInt(Drop(s.b, 3 + c.n)))
    IN IF Len(s.b) < 3 \/ TrigramAt(s.b, 0) = 0 THEN [s EXCEPT !.done = TRUE]
       ELSE Count(UvarintInt(Drop(s.b, 3)))

\* ix.findListV2(trigram)
findListV2(ix, trigram) ==
    LET Found(s) == [st |-> s.st, count |-> s.count,
                     offset |-> IF s.count = 0 THEN 0 ELSE s.offset]
        Walk(b, i) ==
            IF b.st # "ok" \/ i = 0 THEN [st |-> b.st, count |-> 0, offset |-> 0]
            ELSE Found(Iterate(LAMBDA t : findListStep(t, trigram),
                               [b |-> SubSeq(b.b, (i - 1) * postBlockSize + 1,
                                             i * postBlockSize),
                                st |-> "ok", count |-> 0, offset |-> 0, done |-> FALSE],
                               postBlockSize))
        Blocks(b) ==
            Walk(b, Search(LAMBDA k : TrigramAt(b.b, k * postBlockSize) > trigram,
                           0, ix.numPostBlock))
    IN Blocks(slice(ix, ix.postIndex, ix.numPostBlock * postBlockSize))

\* ix.findList(trigram)
findList(ix, trigram) ==
    LET Entry(e) == IF e.trigram # trigram THEN [st |-> "ok", count |-> 0, offset |-> 0]
                    ELSE [st |-> e.st, count |-> e.count, offset |-> e.offset]
        At(i) == IF i >= ix.numPost THEN [st |-> "ok", count |-> 0, offset |-> 0]
                 ELSE Entry(postIndexEntry(ix, i))
        Entries(d) ==
            IF d.st # "ok" THEN [st |-> d.st, count |-> 0, offset |-> 0]
            ELSE At(Search(LAMBDA k : TrigramAt(d.b, k * 11) >= trigram, 0, ix.numPost))
    IN IF ix.version = 2 THEN findListV2(ix, trigram)
       ELSE Entries(slice(ix, ix.postIndex, ix.numPost * 11))

\* a []int of Go: nil, or the elements s
NilList == [nil |-> TRUE, s |-> <<>>]
List(s) == [nil |-> FALSE, s |-> s]

\* postReader.init(ix, trigram, restrict)
postReaderInit(ix, trigram, restrict) ==
    LET Data(f, d) ==
            [hasIx |-> TRUE, st |-> d.st, count |-> f.count, fileid |-> -1,
             restrict |-> restrict, delta |-> deltaReaderInit(d.b), out |-> <<>>,
             done |-> d.st # "ok"]
        Found(f) ==
            IF f.st # "ok" \/ f.count = 0
            THEN [hasIx |-> FALSE, st |-> f.st, count |-> 0, fileid |-> 0, restrict |-> NilList,
                  delta |-> deltaReaderInit(<<>>), out |-> <<>>, done |-> TRUE]
            ELSE Data(f, slice(ix, ix.postData + f.offset + 3, -1))
    IN Found(findList(ix, trigram))

\* the restrict list without its leading elements below fileid
RECURSIVE SkipBelow(_, _)
SkipBelow(l, fileid) ==
    IF l # <<>> /\ l[1] < fileid THEN SkipBelow(Tail(l), fileid) ELSE l

\* one round of the loop of postReader.next; out collects the file IDs for
\* which next returned true
postReaderStep(r, v) ==
    LET Match(x, fileid, rest) ==
            [r EXCEPT !.count = @ - 1, !.delta = x.r, !.fileid = fileid,
                      !.restrict = IF r.restrict.nil THEN @ ELSE [nil |-> FALSE, s |-> rest],
                      !.out = IF r.restrict.nil \/ (rest # <<>> /\ rest[1] = fileid)
                              THEN Append(@, fileid) ELSE @]
        Delta(x, delta) ==
            IF x.r.st # "ok" THEN [r EXCEPT !.st = x.r.st, !.done = TRUE]
            ELSE IF r.count = 0
            THEN [r EXCEPT !.st = IF delta # 0 THEN "corrupt" ELSE "ok", !.done = TRUE,
                           !.delta = clearBits(x.r), !.fileid = -1]
            ELSE IF delta <= 0 \/ Negative64(x.val)
            THEN [r EXCEPT !.st = "corrupt", !.done = TRUE]
            ELSE Match(x, r.fileid + delta, SkipBelow(r.restrict.s, r.fileid + delta))
        Read(x) == Delta(x, ToInt(x.val))
    IN Read(deltaNext(r.delta, v))

\* the file IDs that a postReader yields until next returns false
postRead(ix, trigram, restrict) ==
    LET Loop(r) == Iterate(LAMBDA s : postReaderStep(s, ix.version), r, r.count + 1)
    IN Loop(postReaderInit(ix, trigram, restrict))

\* ix.postingList(trigram, restrict)
postingList(ix, trigram, restrict) == postRead(ix, trigram, restrict).out

\* ix.PostingList(trigram)
PostingList(ix, trigram) == postingList(ix, trigram, NilList)

\* one round of the loop of postingAnd, for the file ID s.ids[s.k]
postingAndStep(s) ==
    LET Hit(fileid, rest) ==
            [s EXCEPT !.k = @ + 1, !.done = s.k = Len(s.ids),
                      !.list = IF rest # <<>> /\ rest[1] = fileid THEN Tail(rest) ELSE rest,
                      !.x = IF rest # <<>> /\ rest[1] = fileid THEN Append(@, fileid) ELSE @]
    IN Hit(s.ids[s.k], SkipBelow(s.list, s.ids[s.k]))

\* ix.postingAnd(list, trigram, restrict)
postingAnd(ix, list, trigram, restrict) ==
    LET Loop(ids) ==
            Iterate(postingAndStep,
                    [ids |-> ids, k |-> 1, list |-> list, x |-> <<>>, done |-> ids = <<>>],
                    Len(ids)).x
    IN Loop(postingList(ix, trigram, restrict))

\* ix.PostingAnd(list, trigram)
PostingAnd(ix, list, trigram) == postingAnd(ix, list, trigram, NilList)

\* the elements of l below fileid left out
TakeBelowNone(l, fileid) == <<>>

\* the leading elements of l below fileid
RECURSIVE TakeBelow(_, _)
TakeBelow(l, fileid) ==
    IF l # <<>> /\ l[1] < fileid THEN <<l[1]>> \o TakeBelow(Tail(l), fileid) ELSE <<>>

\* one round of the loop of postingOr, for the file ID s.ids[s.k]
postingOrStep(s) ==
    LET Hit(fileid, rest) ==
            [s EXCEPT !.k = @ + 1, !.done = s.k = Len(s.ids),
                      !.list = IF rest # <<>> /\ rest[1] = fileid THEN Tail(rest) ELSE rest,
                      !.x = @ \o TakeBelow(s.list, fileid) \o <<fileid>>]
    IN Hit(s.ids[s.k], SkipBelow(s.list, s.ids[s.k]))

\* ix.postingOr(list, trigram, restrict)
postingOr(ix, list, trigram, restrict) ==
    LET Rest(s) == s.x \o s.list
        Loop(ids) ==
            Rest(Iterate(postingOrStep,
                         [ids |-> ids, k |-> 1, list |-> list, x |-> <<>>,
                          done |-> ids = <<>>], Len(ids)))
    IN Loop(postingList(ix, trigram, restrict))

\* ix.PostingOr(list, trigram)
PostingOr(ix, list, trigram) == postingOr(ix, list, trigram, NilList)

\* one round of the loop of mergeOr over the rest of l1 and of l2
mergeOrStep(s) ==
    IF s.l1 = <<>> /\ s.l2 = <<>> THEN [s EXCEPT !.done = TRUE]
    ELSE IF s.l2 = <<>> \/ (s.l1 # <<>> /\ s.l1[1] < s.l2[1])
    THEN [s EXCEPT !.l = Append(@, s.l1[1]), !.l1 = Tail(@)]
    ELSE IF s.l1 = <<>> \/ s.l1[1] > s.l2[1]
    THEN [s EXCEPT !.l = Append(@, s.l2[1]), !.l2 = Tail(@)]
    ELSE [s EXCEPT !.l = Append(@, s.l1[1]), !.l1 = Tail(@), !.l2 = Tail(@)]

mergeOr(l1, l2) ==
    Iterate(mergeOrStep, [l1 |-> l1, l2 |-> l2, l |-> <<>>, done |-> FALSE],
            Len(l1) + Len(l2) + 1).l

\* a Query: Op is "none", "all", "and" or "or"; Trigram lists trigram values
\* and Sub lists queries
Query(op, trigram, sub) == [Op |-> op, Trigram |-> trigram, Sub |-> sub]

\* the loops of postingQuery over q.Trigram[i..] and q.Sub[i..]; list is the
\* local variable list, and the result is what the function returns
RECURSIVE postingQuery(_, _, _), queryTrigrams(_, _, _, _, _), querySubs(_, _, _, _, _)
queryTrigrams(ix, q, restrict, list, i) ==
    LET Next(l) == IF q.Op = "and" /\ l = <<>> THEN NilList
                   ELSE queryTrigrams(ix, q, restrict, List(l), i + 1)
    IN IF i > Len(q.Trigram) THEN querySubs(ix, q, restrict, list, 1)
       ELSE IF list.nil THEN Next(postingList(ix, q.Trigram[i], restrict))
       ELSE IF q.Op = "and" THEN Next(postingAnd(ix, list.s, q.Trigram[i], restrict))
       ELSE Next(postingOr(ix, list.s, q.Trigram[i], restrict))

querySubs(ix, q, restrict, list, i) ==
    LET And(l) == IF l.s = <<>> THEN NilList ELSE querySubs(ix, q, restrict, l, i + 1)
        Or(l) == querySubs(ix, q, restrict, [nil |-> l = <<>>, s |-> l], i + 1)
    IN IF i > Len(q.Sub) THEN list
       ELSE IF q.Op = "and"
       THEN And(postingQuery(ix, q.Sub[i], IF list.nil THEN restrict ELSE list))
       ELSE Or(mergeOr(list.s, postingQuery(ix, q.Sub[i], restrict).s))

\* ix.postingQuery(q, restrict)
postingQuery(ix, q, restrict) ==
    IF q.Op = "all"
    THEN IF ~restrict.nil THEN restrict ELSE List([i \in 1..ix.numName |-> i - 1])
    ELSE IF q.Op \in {"and", "or"} THEN queryTrigrams(ix, q, restrict, NilList, 1)
    ELSE NilList

\* ix.PostingQuery(q)
PostingQuery(ix, q) == postingQuery(ix, q, NilList).s

(***************************************************************************)
(* Merge (index/merge.go).  An idrange is [lo, hi, new]; a result's st is  *)
(* "ok", "corrupt", or "panic" once the code has panicked.                 *)
(***************************************************************************)
\* the path a PathReader over the names N holds after i calls of Next
NameAfter(N, i) == IF i < Len(N) THEN N[i + 1] ELSE <<>>

\* the loops of Merge that advance a name reader: the first j >= i with
\* j >= n or the name at j not below p
RECURSIVE ScanNames(_, _, _, _)
ScanNames(N, i, n, p) ==
    IF i < n /\ Compare(NameAfter(N, i), p) < 0 THEN ScanNames(N, i + 1, n, p) ELSE i

\* a round that gives the range of ix2 the count new from before the round
idmapStepStale(s, N1, N2, n1, n2) ==
    LET New(lo2, hi2, t) ==
            [t EXCEPT !.i2 = hi2, !.k = @ + 1, !.done = s.k = Len(s.roots),
                      !.map2 = IF lo2 < hi2 THEN Append(@, [lo |-> lo2, hi |-> hi2, new |-> s.new])
                               ELSE @,
                      !.new = IF lo2 < hi2 THEN @ + (hi2 - lo2) ELSE @]
        Old(root, lo, hi) ==
            IF s.i2 < n2 /\ Compare(NameAfter(N2, s.i2), root) < 0
            THEN [s EXCEPT !.st = "panic", !.done = TRUE]
            ELSE New(s.i2, ScanNames(N2, s.i2, n2, root \o <<2>>),
                     [s EXCEPT !.i1 = hi,
                               !.map1 = IF s.i1 < lo
                                        THEN Append(@, [lo |-> s.i1, hi |-> lo, new |-> s.new])
                                        ELSE @,
                               !.new = IF s.i1 < lo THEN @ + (lo - s.i1) ELSE @])
        Shadow(root, lo) == Old(root, lo, ScanNames(N1, lo, n1, root \o <<2>>))
    IN Shadow(s.roots[s.k], ScanNames(N1, s.i1, n1, s.roots[s.k]))

\* one round of the loop of Merge over the roots of ix2, for the root s.roots[s.k]
idmapStep(s, N1, N2, n1, n2) ==
    LET New(lo2, hi2, t) ==
            [t EXCEPT !.i2 = hi2, !.k = @ + 1, !.done = s.k = Len(s.roots),
                      !.map2 = IF lo2 < hi2 THEN Append(@, [lo |-> lo2, hi |-> hi2, new |-> t.new])
                               ELSE @,
                      !.new = IF lo2 < hi2 THEN @ + (hi2 - lo2) ELSE @]
        Old(root, lo, hi) ==
            IF s.i2 < n2 /\ Compare(NameAfter(N2, s.i2), root) < 0
            THEN [s EXCEPT !.st = "panic", !.done = TRUE]
            ELSE New(s.i2, ScanNames(N2, s.i2, n2, root \o <<2>>),
                     [s EXCEPT !.i1 = hi,
                               !.map1 = IF s.i1 < lo
                                        THEN Append(@, [lo |-> s.i1, hi |-> lo, new |-> s.new])
                                        ELSE @,
                               !.new = IF s.i1 < lo THEN @ + (lo - s.i1) ELSE @])
        Shadow(root, lo) == Old(root, lo, ScanNames(N1, lo, n1, root \o <<2>>))
    IN Shadow(s.roots[s.k], ScanNames(N1, s.i1, n1, s.roots[s.k]))

\* Merge: the fileid maps map1 and map2 and the number of names of the result
idmaps(ix1, ix2) ==
    LET End(s) ==
            IF s.st # "ok" THEN [st |-> s.st, map1 |-> <<>>, map2 |-> <<>>, numName |-> 0]
            ELSE IF s.i2 < ix2.numName
            THEN [st |-> "panic", map1 |-> <<>>, map2 |-> <<>>, numName |-> 0]
            ELSE [st |-> "ok", map2 |-> s.map2,
                  map1 |-> IF s.i1 < ix1.numName
                           THEN Append(s.map1, [lo |-> s.i1, hi |-> ix1.numName, new |-> s.new])
                           ELSE s.map1,
                  numName |-> IF s.i1 < ix1.numName THEN s.new + (ix1.numName - s.i1)
                              ELSE s.new]
        Loop(N1, N2, roots) ==
            End(Iterate(LAMBDA s : idmapStep(s, N1, N2, ix1.numName, ix2.numName),
                        [roots |-> roots, k |-> 1, i1 |-> 0, i2 |-> 0, new |-> 0,
                         map1 |-> <<>>, map2 |-> <<>>, st |-> "ok", done |-> roots = <<>>],
                        Len(roots)))
    IN Loop(PathAll(NamesAt(ix1, 0, ix1.numName), ix1.numName),
            PathAll(NamesAt(ix2, 0, ix2.numName), ix2.numName),
            PathAll(Roots(ix2), Len(ix2.d)))

\* a merge of the root lists that takes the root of ix2 first on equal roots
RECURSIVE mergeRootsSecond(_, _, _)
mergeRootsSecond(R1, R2, last) ==
    IF R1 = <<>> /\ R2 = <<>> THEN <<>>
    ELSE IF R2 = <<>> \/ (R1 # <<>> /\ Compare(R1[1], R2[1]) < 0)
    THEN IF HasPathPrefix(R1[1], last) THEN mergeRootsSecond(Tail(R1), R2, last)
         ELSE <<R1[1]>> \o mergeRootsSecond(Tail(R1), R2, R1[1])
    ELSE IF HasPathPrefix(R2[1], last) THEN mergeRootsSecond(R1, Tail(R2), last)
         ELSE <<R2[1]>> \o mergeRootsSecond(R1, Tail(R2), R2[1])

\* Merge: the paths written to the merged list of paths, R1 and R2 being
\* what is left of the roots of ix1 and of ix2
RECURSIVE mergeRoots(_, _, _)
mergeRoots(R1, R2, last) ==
    IF R1 = <<>> /\ R2 = <<>> THEN <<>>
    ELSE IF R2 = <<>> \/ (R1 # <<>> /\ Compare(R1[1], R2[1]) <= 0)
    THEN IF HasPathPrefix(R1[1], last) THEN mergeRoots(Tail(R1), R2, last)
         ELSE <<R1[1]>> \o mergeRoots(Tail(R1), R2, R1[1])
    ELSE IF HasPathPrefix(R2[1], last) THEN mergeRoots(R1, Tail(R2), last)
         ELSE <<R2[1]>> \o mergeRoots(R1, Tail(R2), R2[1])

\* Merge: the loop that writes the merged list of names to the PathWriter w
RECURSIVE mergeNames(_, _, _, _, _, _)
mergeNames(w, ix1, ix2, m1, m2, numName) ==
    IF w.n = numName THEN [st |-> "ok", w |-> w]
    ELSE IF m1 # <<>> /\ m1[1].new = w.n
    THEN mergeNames(PathCollect(w, Names(ix1, m1[1].lo, m1[1].hi), 2), ix1, ix2,
                    Tail(m1), m2, numName)
    ELSE IF m2 # <<>> /\ m2[1].new = w.n
    THEN mergeNames(PathCollect(w, Names(ix2, m2[1].lo, m2[1].hi), 2), ix1, ix2,
                    m1, Tail(m2), numName)
    ELSE [st |-> "panic", w |-> w]

\* ^uint32(0), the trigram of a postMapReader at the end of its index, held
\* as the largest integer of the model: only its order above every 24-bit
\* trigram and its low three bytes are used
endOfTrigrams == 2147483647

\* postMapReader.load(force); r.block is a []byte that can be nil
postMapLoad(r, ix, force) ==
    LET Data(e, block, nextBlock, d) ==
            [r EXCEPT !.triNum = @ + 1, !.trigram = e.trigram, !.count = e.count,
                      !.offset = e.offset, !.block = block, !.nextBlock = nextBlock,
                      !.delta = deltaReaderInit(d.b), !.oldid = -1, !.i = 0, !.st = d.st]
        Ready(e, block, nextBlock) ==
            IF e.st # "ok" THEN [r EXCEPT !.st = e.st]
            ELSE IF e.count = 0
            THEN [r EXCEPT !.triNum = @ + 1, !.trigram = e.trigram, !.count = 0,
                           !.offset = e.offset, !.block = block, !.nextBlock = nextBlock,
                           !.fileid = -1]
            ELSE Data(e, block, nextBlock, slice(ix, ix.postData + e.offset + 3, -1))
        Entry(b, offset, nextBlock, c, o) ==
            Ready([st |-> IF c.n <= 0 \/ o.n <= 0 THEN "corrupt" ELSE "ok",
                   trigram |-> TrigramAt(b, 0), count |-> c.val, offset |-> offset + o.val],
                  List(Drop(b, 3 + c.n + o.n)), nextBlock)
        Count(b, offset, nextBlock, c) ==
            Entry(b, offset, nextBlock, c, UvarintInt(Drop(b, 3 + c.n)))
        Block(b, offset, nextBlock) ==
            IF b.st # "ok" THEN [r EXCEPT !.st = b.st]
            ELSE Count(b.b, offset, nextBlock, UvarintInt(Drop(b.b, 3)))
    IN IF ~force /\ r.trigram = endOfTrigrams THEN r
       ELSE IF r.triNum + 1 >= ix.numPost
       THEN [r EXCEPT !.triNum = @ + 1, !.trigram = endOfTrigrams, !.count = 0, !.fileid = -1]
       ELSE IF ix.version = 1 THEN Ready(postIndexEntry(ix, r.triNum + 1), r.block, r.nextBlock)
       ELSE IF \/ r.block.nil \/ Len(r.block.s) < 3
               \/ (r.block.s[1] = 0 /\ r.block.s[2] = 0 /\ r.block.s[3] = 0)
       THEN Block(slice(ix, ix.postIndex + r.nextBlock, postBlockSize), 0,
                  r.nextBlock + postBlockSize)
       ELSE Block([st |-> "ok", b |-> r.block.s], r.offset, r.nextBlock)

\* postMapReader.init(ix, idmap)
postMapInit(ix, idmap) ==
    postMapLoad([idmap |-> idmap, trigram |-> endOfTrigrams, count |-> 0, offset |-> 0,
                 oldid |-> 0, fileid |-> 0, i |-> 0, delta |-> deltaReaderInit(<<>>),
                 block |-> NilList, nextBlock |-> 0, triNum |-> -1, st |-> "ok"], ix, TRUE)

\* the loop of nextId that passes the ranges ending at or below oldid
RECURSIVE SkipRanges(_, _, _)
SkipRanges(idmap, i, oldid) ==
    IF i < Len(idmap) /\ idmap[i + 1].hi <= oldid THEN SkipRanges(idmap, i + 1, oldid) ELSE i

\* one round of the loop of postMapReader.nextId; ok is the value returned
postMapNextIdStep(s, v) ==
    LET Range(x, oldid, i) ==
            IF i >= Len(s.r.idmap)
            THEN [r |-> [s.r EXCEPT !.count = 0, !.delta = x.r, !.oldid = oldid, !.i = i,
                                    !.fileid = -1],
                  ok |-> FALSE, done |-> TRUE]
            ELSE IF oldid < s.r.idmap[i + 1].lo
            THEN [r |-> [s.r EXCEPT !.count = @ - 1, !.delta = x.r, !.oldid = oldid, !.i = i],
                  ok |-> FALSE, done |-> FALSE]
            ELSE [r |-> [s.r EXCEPT !.count = @ - 1, !.delta = x.r, !.oldid = oldid, !.i = i,
                                    !.fileid = s.r.idmap[i + 1].new + oldid
                                               - s.r.idmap[i + 1].lo],
                  ok |-> TRUE, done |-> TRUE]
        Delta(x, oldid) == Range(x, oldid, SkipRanges(s.r.idmap, s.r.i, oldid))
        Read(x) ==
            IF x.r.st # "ok" THEN [r |-> [s.r EXCEPT !.st = x.r.st], ok |-> FALSE, done |-> TRUE]
            ELSE IF Negative64(x.val) \/ ToInt(x.val) <= 0
            THEN [r |-> [s.r EXCEPT !.st = "corrupt"], ok |-> FALSE, done |-> TRUE]
            ELSE Delta(x, s.r.oldid + ToInt(x.val))
    IN IF s.r.count <= 0
       THEN [r |-> [s.r EXCEPT !.fileid = -1], ok |-> FALSE, done |-> TRUE]
       ELSE Read(deltaNext(s.r.delta, v))

\* postMapReader.nextId(): [r, ok]
postMapNextId(r, v) ==
    Iterate(LAMBDA s : postMapNextIdStep(s, v), [r |-> r, ok |-> FALSE, done |-> FALSE],
            r.count + 1)

\* the loop "for r.nextId() { w.fileid(r.fileid) }" of Merge: [r, w]
copyIds(r, w, v) ==
    Iterate(LAMBDA s : LET Next(n) == [r |-> n.r, done |-> ~n.ok,
                                       w |-> IF n.ok THEN postFileid(s.w, n.r.fileid) ELSE s.w]
                       IN Next(postMapNextId(s.r, v)),
            [r |-> r, w |-> w, done |-> FALSE], r.count + 1)

\* a file ID as uint(fileid): -1 is above every file ID
UintId(fileid) == IF fileid < 0 THEN endOfTrigrams ELSE fileid

\* one round of the loop of Merge that interleaves the file IDs of r1 and r2
interleaveStep(s, v1, v2) ==
    LET Take1(n) == [s EXCEPT !.r1 = n.r, !.w = postFileid(s.w, s.r1.fileid)]
        Take2(n) == [s EXCEPT !.r2 = n.r, !.w = postFileid(s.w, s.r2.fileid)]
    IN IF s.r1.fileid = -1 /\ s.r2.fileid = -1 THEN [s EXCEPT !.done = TRUE]
       ELSE IF UintId(s.r1.fileid) < UintId(s.r2.fileid) THEN Take1(postMapNextId(s.r1, v1))
       ELSE IF UintId(s.r2.fileid) < UintId(s.r1.fileid) THEN Take2(postMapNextId(s.r2, v2))
       ELSE [s EXCEPT !.st = "panic", !.done = TRUE]

\* one round of the loop of Merge over the posting lists of ix1 and ix2
mergeListsStep(m, ix1, ix2) ==
    LET Only1(c) == [m EXCEPT !.r1 = postMapLoad(c.r, ix1, FALSE), !.w = postEndTrigram(c.w),
                              !.old1 = m.r1.trigram, !.old2 = m.r2.trigram]
        Only2(c) == [m EXCEPT !.r2 = postMapLoad(c.r, ix2, FALSE), !.w = postEndTrigram(c.w),
                              !.old1 = m.r1.trigram, !.old2 = m.r2.trigram]
        Both(s) == [m EXCEPT !.r1 = postMapLoad(s.r1, ix1, FALSE),
                             !.r2 = postMapLoad(s.r2, ix2, FALSE),
                             !.w = postEndTrigram(s.w), !.st = s.st, !.done = s.st # "ok",
                             !.old1 = m.r1.trigram, !.old2 = m.r2.trigram]
        First(n1, n2, w) ==
            Both(Iterate(LAMBDA s : interleaveStep(s, ix1.version, ix2.version),
                         [r1 |-> n1.r, r2 |-> n2.r, w |-> w, st |-> "ok", done |-> FALSE],
                         m.r1.count + m.r2.count + 1))
    IN IF m.r1.st # "ok" \/ m.r2.st # "ok"
       THEN [m EXCEPT !.st = IF m.r1.st # "ok" THEN m.r1.st ELSE m.r2.st, !.done = TRUE]
       ELSE IF ~(m.r1.trigram > m.old1 \/ m.r2.trigram > m.old2)
       THEN [m EXCEPT !.st = "panic", !.done = TRUE]
       ELSE IF m.r1.trigram < m.r2.trigram
       THEN Only1(copyIds(m.r1, postTrigram(m.w, m.r1.trigram), ix1.version))
       ELSE IF m.r2.trigram < m.r1.trigram
       THEN Only2(copyIds(m.r2, postTrigram(m.w, m.r2.trigram), ix2.version))
       ELSE IF m.r1.trigram = endOfTrigrams
       THEN [m EXCEPT !.w = postEndTrigram(postTrigram(m.w, m.r1.trigram)), !.done = TRUE]
       ELSE First(postMapNextId(m.r1, ix1.version), postMapNextId(m.r2, ix2.version),
                  postTrigram(m.w, m.r1.trigram))

\* Merge: the merged list of posting lists, written after the bytes out
mergeLists(ix1, ix2, map1, map2, out) ==
    LET End(m) == [st |-> IF m.done THEN m.st ELSE "panic",
                   w |-> IF m.w.block # <<>> THEN postFlush(m.w) ELSE m.w]
    IN End(Iterate(LAMBDA m : mergeListsStep(m, ix1, ix2),
                   [r1 |-> postMapInit(ix1, map1), r2 |-> postMapInit(ix2, map2),
                    w |-> postDataWriterInit(out, TRUE, 2), old1 |-> 0, old2 |-> 0,
                    st |-> "ok", done |-> FALSE],
                   ix1.numPost + ix2.numPost + 2))

\* Merge(dst, src1, src2) called with writeVersion v: st, and the bytes d of
\* dst when the call returns
Merge(ix1, ix2, v) ==
    LET U(x) == WriteUint(x, 2)
        \* off lists pathData, numPath, nameData, numName and postData
        Trailer(off, w, nameIndex, m) ==
            [st |-> "ok",
             d |-> Align(m, 16, 2) \o U(off[1]) \o U(off[2]) \o U(off[3]) \o U(off[4])
                       \o U(off[5]) \o U(w.numTrigram) \o U(nameIndex)
                       \o U(Len(m) - Len(w.index)) \o trailerMagicV2]
        PostIndex(off, w, nameIndex, m) == Trailer(off, w, nameIndex, m \o w.index)
        NameIndex(off, names, w, m) ==
            PostIndex(off, w, Len(m), Align(m \o names.index, 16, 2))
        Posts(off, names, p) ==
            IF p.st # "ok" THEN [st |-> p.st, d |-> <<>>]
            ELSE NameIndex(off, names, p.w, Align(p.w.dw.out, 16, 2))
        NameList(ids, off, names, m) ==
            IF names.st # "ok" THEN [st |-> names.st, d |-> <<>>]
            ELSE IF Len(names.w.index) # GoDiv(names.w.n + nameGroupSize - 1, nameGroupSize) * 8
            THEN [st |-> "panic", d |-> <<>>]
            ELSE Posts(off \o <<names.w.n, Len(m)>>, names.w,
                       mergeLists(ix1, ix2, ids.map1, ids.map2, m))
        NamesEnd(ids, off, names) == NameList(ids, off, names, Align(names.w.data, 16, 2))
        RootList(ids, paths, m) ==
            NamesEnd(ids, <<Len(magicV2), paths.n, Len(m)>>,
                     mergeNames(NewPathWriter(m, <<>>, TRUE, 2, nameGroupSize), ix1, ix2,
                                ids.map1, ids.map2, ids.numName))
        RootsEnd(ids, paths) == RootList(ids, paths, Align(paths.data, 16, 2))
        Start(ids) ==
            IF ids.st # "ok" THEN [st |-> ids.st, d |-> <<>>]
            ELSE RootsEnd(ids, PathCollect(NewPathWriter(IF v = 1 THEN magicV1 ELSE magicV2,
                                                          <<>>, FALSE, 2, 0),
                                           mergeRoots(PathAll(Roots(ix1), Len(ix1.d)),
                                                      PathAll(Roots(ix2), Len(ix2.d)),
                                                      <<255>>), 2))
    IN Start(idmaps(ix1, ix2))

(***************************************************************************)
(* Path functions applied to drawn inputs.                                 *)
(***************************************************************************)
PathAlphabet == {46, Slash, Backslash, 120}     \* . / \ x

PathInputs == BoundedSeq(PathAlphabet, MaxPathLen)

PathInit ==
    /\ pathSeparator \in {Slash, Backslash}
    /\ writeVersion = 2
    /\ pt \in [p : PathInputs, q : PathInputs, done : {FALSE},
               pq : {0}, qp : {0}]
    /\ dc = Idle /\ nm = Idle /\ iw = Idle /\ mg = Idle /\ mt = Idle /\ rd = Idle /\ ck = Idle /\ fs = Idle

ComparePaths ==
    /\ ~pt.done
    /\ pt' = [pt EXCEPT !.done = TRUE,
                        !.pq = Compare(pt.p, pt.q),
                        !.qp = Compare(pt.q, pt.p)]
    /\ UNCHANGED <<pathSeparator, writeVersion, dc, nm, iw, mg, mt, rd, ck, fs>>

NextPath == ComparePaths

SpecPath == PathInit /\ [][NextPath]_vars

IsSep(c) == c = Slash \/ c = pathSeparator

FirstDiff(a, b) ==
    IF \E i \in 1..Min(Len(a), Len(b)) : a[i] # b[i]
    THEN CHOOSE i \in 1..Min(Len(a), Len(b)) :
            a[i] # b[i] /\ \A j \in 1..(i - 1) : a[j] = b[j]
    ELSE 0

\* C10: p.Compare(q) == -q.Compare(p) for any two paths, and a separator
\* compares as byte 0: where p and q first differ, with a separator in p and
\* an ordinary byte in q, p orders before q (x/y before x.z).
C10_CompareAntisymmetric ==
    pt.done =>
        /\ pt.pq = -pt.qp
        /\ LET i == FirstDiff(pt.p, pt.q)
           IN (i > 0 /\ IsSep(pt.p[i]) /\ ~IsSep(pt.q[i])) => pt.pq < 0

C10_Witness ==
    /\ pt.done
    /\ pt.p = <<120, 47, 120>>
    /\ pt.q = <<120, 46, 120>>
    /\ pt.pq < 0

(***************************************************************************)
(* Delta coding applied to drawn values: Write*, Flush, then next*, as     *)
(* the index writer and reader use the coder.                              *)
(***************************************************************************)
\* 1<<40 + 5, a value the gamma code writes in two parts, and 1<<63 - 1,
\* the largest int
DeltaBig == Or64(Shl(One64, 40), FromInt(5))

DeltaMaxInt == Mask64(WordBits - 1)

DeltaSamples ==
    {FromInt(n) : n \in {0, 1, 15, deltaZeroEnc, deltaZeroEnc + 1, 300}}
        \cup {DeltaBig, DeltaMaxInt}

DeltaInit ==
    /\ pathSeparator = Slash
    /\ writeVersion \in {1, 2}
    /\ dc = [phase |-> "write", vals |-> <<>>, w |-> deltaWriterInit(<<>>),
             r |-> deltaReaderInit(<<>>), got |-> <<>>]
    /\ pt = Idle /\ nm = Idle /\ iw = Idle /\ mg = Idle /\ mt = Idle /\ rd = Idle /\ ck = Idle /\ fs = Idle

\* w.Write(x)
DeltaWrite ==
    /\ dc.phase = "write" /\ dc.w.ok
    /\ Len(dc.vals) < MaxDeltaVals
    /\ \E x \in DeltaSamples :
          dc' = [dc EXCEPT !.vals = Append(dc.vals, x),
                           !.w = deltaWrite(dc.w, x, writeVersion)]
    /\ UNCHANGED <<pathSeparator, writeVersion, pt, nm, iw, mg, mt, rd, ck, fs>>

\* w.Flush(), then r.init(&Index{version: v}, b.buf)
DeltaFlush ==
    /\ dc.phase = "write" /\ dc.w.ok
    /\ LET w == deltaFlush(dc.w)
       IN dc' = [dc EXCEPT !.phase = "read", !.w = w, !.r = deltaReaderInit(w.out)]
    /\ UNCHANGED <<pathSeparator, writeVersion, pt, nm, iw, mg, mt, rd, ck, fs>>

\* r.next()
DeltaNext ==
    /\ dc.phase = "read" /\ dc.r.st = "ok"
    /\ Len(dc.got) < Len(dc.vals)
    /\ LET x == deltaNext(dc.r, writeVersion)
       IN dc' = [dc EXCEPT !.r = x.r, !.got = Append(dc.got, x.val)]
    /\ UNCHANGED <<pathSeparator, writeVersion, pt, nm, iw, mg, mt, rd, ck, fs>>

NextDelta == DeltaWrite \/ DeltaFlush \/ DeltaNext

SpecDelta == DeltaInit /\ [][NextDelta]_vars

\* C6: every sequence of non-negative integers the writer accepts, written
\* with Write and Flush, is returned by the same number of next calls in
\* order, in format 1 and in format 2, and no byte is left unread.
C6_DeltaRoundTrip ==
    dc.phase = "read" =>
        /\ dc.r.st = "ok"
        /\ \A i \in 1..Len(dc.got) : dc.got[i] = dc.vals[i]
        /\ Len(dc.got) = Len(dc.vals) => clearBits(dc.r).d = <<>>

C6_Witness ==
    /\ dc.phase = "read"
    /\ writeVersion = 2
    /\ dc.vals = <<Zero64, DeltaBig, FromInt(deltaZeroEnc)>>
    /\ dc.got = dc.vals

(***************************************************************************)
(* An IndexWriter driven by Add and Flush, and the written index opened    *)
(* and queried (TestTrivialPosting, buildFlushIndex).                      *)
(***************************************************************************)
MaxAdds == 3

\* the capacity of ix.post, scaled down from 64<<20 / 8 entries so that a
\* few files fill it and flushPost runs
npost == 4

Tri(a, b, c) == a * 65536 + b * 256 + c

\* the bytes lo, lo+1, ..., hi
Run(lo, hi) == [i \in 1..(hi - lo + 1) |-> lo + i - 1]

\* names offered to Add: a, a/b, a.b (ascending in this order under
\* Compare), and one with a control character
NameSamples == {<<97>>, <<97, Slash, 98>>, <<97, 46, 98>>, <<97, 1>>}

\* file contents offered to Add: empty, abcabcd, 56 distinct bytes
\* that hold abcd, one with a NUL and one that is not UTF-8
LongFile == SubSeq(Run(45, 100), 1, 56)
FileSamples ==
    {<<>>, <<97, 98, 99, 97, 98, 99, 100>>, LongFile,
     <<97, 98, 0, 99>>, <<97, 98, 255, 99>>}

\* trigrams looked up: abc, bcd, cab, the first of LongFile and one more,
\* xyz (in no file) and the sentinel
TrigramSamples ==
    {Tri(97, 98, 99), Tri(98, 99, 100), Tri(99, 97, 98), Tri(45, 46, 47),
     Tri(96, 97, 98), Tri(120, 121, 122), invalidTrigram}

\* the trigrams of a file's content: every three consecutive bytes
TrigramsOf(f) == {Tri(f[i], f[i + 1], f[i + 2]) : i \in 1..(Len(f) - 2)}

WriterInit ==
    /\ pathSeparator = Slash
    /\ writeVersion \in {1, 2}
    /\ iw = [phase |-> "add", ix |-> Create(writeVersion, npost), files |-> <<>>,
             calls |-> 0, prev |-> <<>>, sorted |-> TRUE]
    /\ pt = Idle /\ dc = Idle /\ nm = Idle /\ mg = Idle /\ mt = Idle /\ rd = Idle /\ ck = Idle /\ fs = Idle

\* ix.Add(name, f); files lists the name and content of each file that was
\* given an ID, and sorted records that every call so far named a path
\* above the one of the call before
WriterAdd ==
    /\ iw.phase = "add" /\ iw.calls < MaxAdds /\ ~iw.ix.fatal
    /\ \E name \in NameSamples, f \in FileSamples :
          LET Added(ix) ==
                  [iw EXCEPT !.ix = ix, !.calls = @ + 1, !.prev = name,
                             !.sorted = @ /\ (iw.calls = 0 \/ Compare(iw.prev, name) < 0),
                             !.files = IF ix.numName > iw.ix.numName
                                       THEN Append(@, [name |-> name, f |-> f]) ELSE @]
          IN iw' = Added(Add(iw.ix, name, f, writeVersion))
    /\ UNCHANGED <<pathSeparator, writeVersion, pt, dc, nm, mg, mt, rd, ck, fs>>

\* ix.Flush(), then Open of the written file
WriterFlush ==
    /\ iw.phase = "add" /\ ~iw.ix.fatal
    /\ LET ix == Flush(iw.ix, writeVersion)
       IN iw' = [phase |-> "open", files |-> iw.files, sorted |-> iw.sorted,
                 index |-> Open(ix.main), op |-> "open", t |-> 0, list |-> <<>>]
    /\ UNCHANGED <<pathSeparator, writeVersion, pt, dc, nm, mg, mt, rd, ck, fs>>

\* ix.PostingList(t), once for each opened index
WriterPostingList ==
    /\ iw.phase = "open" /\ iw.op = "open" /\ iw.index.ok
    /\ \E t \in TrigramSamples :
          iw' = [iw EXCEPT !.op = "list", !.t = t, !.list = PostingList(iw.index, t)]
    /\ UNCHANGED <<pathSeparator, writeVersion, pt, dc, nm, mg, mt, rd, ck, fs>>

NextWriter == WriterAdd \/ WriterFlush \/ WriterPostingList

SpecWriter == WriterInit /\ [][NextWriter]_vars

\* l is strictly ascending
Ascending(l) == \A i \in 1..(Len(l) - 1) : l[i] < l[i + 1]

\* C1: in an index written by Create, Add calls with ascending names, and
\* Flush, and then opened, the file with ID f is in PostingList(t) exactly
\* when three consecutive bytes of its content make t
C1_PostingListCorrect ==
    (iw.phase = "open" /\ iw.op = "list" /\ iw.sorted) =>
        /\ \A k \in 1..Len(iw.files) :
              (\E i \in 1..Len(iw.list) : iw.list[i] = k - 1) <=> iw.t \in TrigramsOf(iw.files[k].f)
        /\ \A i \in 1..Len(iw.list) : iw.list[i] \in 0..(Len(iw.files) - 1)
        /\ Ascending(iw.list)

C1_Witness ==
    /\ iw.phase = "open" /\ iw.op = "list" /\ iw.sorted /\ writeVersion = 2
    /\ Len(iw.files) = 3 /\ iw.files[2].f = LongFile
    /\ iw.t = Tri(97, 98, 99) /\ iw.list = <<0, 1>>

\* C7: in format v2 a name is stored only if it is above, under Compare,
\* every name stored before it, so the names of a written index ascend
C7_NamesStrictlyAscending ==
    writeVersion = 2 =>
        /\ \A i, j \in 1..Len(iw.files) :
              i < j => Compare(iw.files[i].name, iw.files[j].name) < 0
        /\ iw.phase = "open" =>
              LET Sorted(names) ==
                      \A i, j \in 1..Len(names) : i < j => Compare(names[i], names[j]) < 0
              IN Sorted(Names(iw.index, 0, iw.index.numName))

(***************************************************************************)
(* Queries against an opened index: PostingAnd, PostingOr and PostingQuery *)
(* on the index written for up to three files.                             *)
(***************************************************************************)
\* the names of the three files, ascending under Compare
QueryNames == <<<<97>>, <<97, Slash, 98>>, <<97, 46, 98>>>>

\* the contents a file may have: empty, abc, bcd and abcd
QueryFiles == {<<>>, <<97, 98, 99>>, <<98, 99, 100>>, <<97, 98, 99, 100>>}

abc == Tri(97, 98, 99)
bcd == Tri(98, 99, 100)

\* trigrams asked for: abc, bcd, xyz (in no file) and the sentinel
QueryTrigrams == {abc, bcd, Tri(120, 121, 122), invalidTrigram}

\* the strictly ascending lists of file IDs below 4
ListSamples ==
    {l \in UNION {[1..n -> 0..3] : n \in 0..4} : \A i \in 1..(Len(l) - 1) : l[i] < l[i + 1]}

\* query trees: the leaves, and nodes over them with up to two sub-queries
LeafQueries ==
    {Query("all", <<>>, <<>>), Query("none", <<>>, <<>>), Query("and", <<>>, <<>>),
     Query("or", <<>>, <<>>), Query("and", <<abc>>, <<>>), Query("or", <<abc, bcd>>, <<>>)}

QuerySamples ==
    LeafQueries \cup
    {Query(op, tri, sub) : op \in {"and", "or"}, tri \in {<<>>, <<abc>>, <<bcd, abc>>},
                           sub \in UNION {[1..n -> LeafQueries] : n \in 1..2}}

\* ix.Add of the next name of QueryNames, with any of the contents
QueryAdd ==
    /\ iw.phase = "add" /\ iw.calls < Len(QueryNames) /\ ~iw.ix.fatal
    /\ \E f \in QueryFiles :
          LET name == QueryNames[iw.calls + 1]
              Added(ix) ==
                  [iw EXCEPT !.ix = ix, !.calls = @ + 1, !.prev = name,
                             !.files = IF ix.numName > iw.ix.numName
                                       THEN Append(@, [name |-> name, f |-> f]) ELSE @]
          IN iw' = Added(Add(iw.ix, name, f, writeVersion))
    /\ UNCHANGED <<pathSeparator, writeVersion, pt, dc, nm, mg, mt, rd, ck, fs>>

\* ix.PostingAnd(l, t)
QueryAnd ==
    /\ iw.phase = "open" /\ iw.op = "open" /\ iw.index.ok
    /\ \E l \in ListSamples, t \in QueryTrigrams :
          iw' = [iw EXCEPT !.op = "and", !.t = t, !.list = PostingAnd(iw.index, l, t)] @@
                [l |-> l]
    /\ UNCHANGED <<pathSeparator, writeVersion, pt, dc, nm, mg, mt, rd, ck, fs>>

\* ix.PostingOr(l, t)
QueryOr ==
    /\ iw.phase = "open" /\ iw.op = "open" /\ iw.index.ok
    /\ \E l \in ListSamples, t \in QueryTrigrams :
          iw' = [iw EXCEPT !.op = "or", !.t = t, !.list = PostingOr(iw.index, l, t)] @@
                [l |-> l]
    /\ UNCHANGED <<pathSeparator, writeVersion, pt, dc, nm, mg, mt, rd, ck, fs>>

\* PostingAnd and PostingOr of PostingList(a) with b, and of PostingList(b) with a
QueryCommute ==
    /\ iw.phase = "open" /\ iw.op = "open" /\ iw.index.ok
    /\ \E a \in QueryTrigrams, b \in QueryTrigrams :
          iw' = [iw EXCEPT !.op = "commute"] @@
                [a |-> a, b |-> b,
                 andAB |-> PostingAnd(iw.index, PostingList(iw.index, a), b),
                 andBA |-> PostingAnd(iw.index, PostingList(iw.index, b), a),
                 orAB |-> PostingOr(iw.index, PostingList(iw.index, a), b),
                 orBA |-> PostingOr(iw.index, PostingList(iw.index, b), a)]
    /\ UNCHANGED <<pathSeparator, writeVersion, pt, dc, nm, mg, mt, rd, ck, fs>>

\* ix.PostingQuery(q)
QueryRun ==
    /\ iw.phase = "open" /\ iw.op = "open" /\ iw.index.ok
    /\ \E q \in QuerySamples :
          iw' = [iw EXCEPT !.op = "query", !.list = PostingQuery(iw.index, q)] @@ [q |-> q]
    /\ UNCHANGED <<pathSeparator, writeVersion, pt, dc, nm, mg, mt, rd, ck, fs>>

NextQuery == QueryAdd \/ WriterFlush \/ QueryAnd \/ QueryOr \/ QueryCommute \/ QueryRun

SpecQuery == WriterInit /\ [][NextQuery]_vars

\* k is an element of the list l
InList(l, k) == \E i \in 1..Len(l) : l[i] = k

\* the file with ID k has the trigram t
HasTrigram(k, t) == k + 1 \in 1..Len(iw.files) /\ t \in TrigramsOf(iw.files[k + 1].f)

\* the file with ID k satisfies the query q
RECURSIVE Holds(_, _)
Holds(q, k) ==
    IF q.Op = "all" THEN TRUE
    ELSE IF q.Op = "and"
    THEN /\ \A i \in 1..Len(q.Trigram) : HasTrigram(k, q.Trigram[i])
         /\ \A i \in 1..Len(q.Sub) : Holds(q.Sub[i], k)
    ELSE IF q.Op = "or"
    THEN \/ \E i \in 1..Len(q.Trigram) : HasTrigram(k, q.Trigram[i])
         \/ \E i \in 1..Len(q.Sub) : Holds(q.Sub[i], k)
    ELSE FALSE

\* C9: PostingAnd(L, t) is L intersected with PostingList(t) and
\* PostingOr(L, t) is L united with it, both strictly ascending, and both
\* give the same list for PostingList(a) with b as for PostingList(b) with a
C9_AndOrOfList ==
    /\ (iw.phase = "open" /\ iw.op \in {"and", "or"}) =>
          /\ Ascending(iw.list)
          /\ \A k \in 0..3 :
                InList(iw.list, k) <=>
                    IF iw.op = "and"
                    THEN InList(iw.l, k) /\ InList(PostingList(iw.index, iw.t), k)
                    ELSE InList(iw.l, k) \/ InList(PostingList(iw.index, iw.t), k)
          /\ \A i \in 1..Len(iw.list) : iw.list[i] \in 0..3
    /\ (iw.phase = "open" /\ iw.op = "commute") =>
          iw.andAB = iw.andBA /\ iw.orAB = iw.orBA

C9_Witness ==
    /\ iw.phase = "open" /\ iw.op = "and" /\ writeVersion = 2
    /\ iw.l = <<0, 2, 3>> /\ iw.t = abc /\ PostingList(iw.index, abc) = <<0, 1, 2>>
    /\ iw.list = <<0, 2>>

\* C5: PostingQuery(q) lists, ascending and without duplicates, exactly the
\* file IDs that satisfy q, where an AND with nothing under it holds for
\* every ID and an OR with nothing under it for none
C5_PostingQueryCorrect ==
    (iw.phase = "open" /\ iw.op = "query") =>
        /\ Ascending(iw.list)
        /\ \A i \in 1..Len(iw.list) : iw.list[i] \in 0..(iw.index.numName - 1)
        /\ \A k \in 0..(iw.index.numName - 1) : InList(iw.list, k) <=> Holds(iw.q, k)

(***************************************************************************)
(* Names of an opened index: Names(lo, hi) and Name(fileid) on the index   *)
(* written for the first n names of NamePool.                              *)
(***************************************************************************)
MaxNames == 18

\* names in ascending Path order, more than one group of nameGroupSize
NamePool ==
    <<<<97>>, <<97, Slash, 98>>, <<97, Slash, 98, Slash, 99>>, <<97, Slash, 98, 46, 99>>,
      <<97, Slash, 99>>, <<97, 46, 98>>, <<97, 97>>, <<97, 97, 97>>, <<97, 98>>,
      <<97, 98, Slash, 97>>, <<97, 98, 99>>, <<97, 99>>, <<98>>, <<98, Slash, 97>>,
      <<98, Slash, 97, 97>>, <<98, 97>>, <<98, 97, 46, 99>>, <<98, 97, 97>>>>

NamesInit ==
    /\ pathSeparator = Slash
    /\ writeVersion \in {1, 2}
    /\ nm = [phase |-> "add", ix |-> Create(writeVersion, npost), names |-> <<>>]
    /\ pt = Idle /\ dc = Idle /\ iw = Idle /\ mg = Idle /\ mt = Idle /\ rd = Idle /\ ck = Idle /\ fs = Idle

\* ix.Add of the next name of NamePool, with an empty file
NamesAdd ==
    /\ nm.phase = "add" /\ Len(nm.names) < MaxNames /\ ~nm.ix.fatal
    /\ LET name == NamePool[Len(nm.names) + 1]
       IN nm' = [nm EXCEPT !.ix = Add(nm.ix, name, <<>>, writeVersion),
                           !.names = Append(@, name)]
    /\ UNCHANGED <<pathSeparator, writeVersion, pt, dc, iw, mg, mt, rd, ck, fs>>

\* ix.Flush, then Open of the file written
NamesFlush ==
    /\ nm.phase = "add" /\ ~nm.ix.fatal
    /\ nm' = [phase |-> "open", names |-> nm.names, op |-> "open",
              index |-> Open(Flush(nm.ix, writeVersion).main)]
    /\ UNCHANGED <<pathSeparator, writeVersion, pt, dc, iw, mg, mt, rd, ck, fs>>

\* ix.Names(lo, hi), and ix.Name(id) for each id of the range
NamesRange ==
    /\ nm.phase = "open" /\ nm.op = "open" /\ nm.index.ok
    /\ \E lo \in 0..nm.index.numName, hi \in 0..nm.index.numName :
          /\ lo <= hi
          /\ nm' = [nm EXCEPT !.op = "range"] @@
                   [lo |-> lo, hi |-> hi, out |-> Names(nm.index, lo, hi),
                    byName |-> [k \in 1..(hi - lo) |-> Name(nm.index, lo + k - 1)]]
    /\ UNCHANGED <<pathSeparator, writeVersion, pt, dc, iw, mg, mt, rd, ck, fs>>

NextNames == NamesAdd \/ NamesFlush \/ NamesRange

SpecNames == NamesInit /\ [][NextNames]_vars

\* C8: for 0 <= lo <= hi <= n, Names(lo, hi) yields hi - lo paths, the k-th
\* being Name(lo + k) and the (lo + k)-th name the writer stored
C8_NamesRange ==
    (nm.phase = "open" /\ nm.op = "range") =>
        /\ nm.index.numName = Len(nm.names)
        /\ Len(nm.out) = nm.hi - nm.lo
        /\ \A k \in 1..Len(nm.out) :
              nm.out[k] = nm.byName[k] /\ nm.out[k] = nm.names[nm.lo + k]

C8_Witness ==
    /\ nm.phase = "open" /\ nm.op = "range" /\ writeVersion = 2
    /\ Len(nm.names) = 18 /\ nm.lo = 5 /\ nm.hi = 18
    /\ nm.out = SubSeq(NamePool, 6, 18)

(***************************************************************************)
(* Compare and HasPathPrefix applied to three drawn paths.                 *)
(***************************************************************************)
MaxOrderLen == 2

\* NUL, / \ and x
OrderAlphabet == {0, Slash, Backslash, 120}

OrderInputs == BoundedSeq(OrderAlphabet, MaxOrderLen)

OrderInit ==
    /\ pathSeparator \in {Slash, Backslash}
    /\ writeVersion = 2
    /\ pt \in [p : OrderInputs, q : OrderInputs, r : OrderInputs, done : {FALSE}]
    /\ dc = Idle /\ nm = Idle /\ iw = Idle /\ mg = Idle /\ mt = Idle /\ rd = Idle /\ ck = Idle /\ fs = Idle

\* the comparisons among p, q and r, p.HasPathPrefix(r), and the comparison
\* of p with the limit r + "\x02" that Merge uses
OrderPaths ==
    /\ ~pt.done
    /\ pt' = [p |-> pt.p, q |-> pt.q, r |-> pt.r, done |-> TRUE,
              pq |-> Compare(pt.p, pt.q), qr |-> Compare(pt.q, pt.r),
              pr |-> Compare(pt.p, pt.r), rp |-> Compare(pt.r, pt.p),
              prefix |-> HasPathPrefix(pt.p, pt.r),
              limit |-> Compare(pt.p, pt.r \o <<2>>)]
    /\ UNCHANGED <<pathSeparator, writeVersion, dc, nm, iw, mg, mt, rd, ck, fs>>

NextOrder == OrderPaths

SpecOrder == OrderInit /\ [][NextOrder]_vars

\* the path as Compare reads it, separators as byte 0
CompareBytes(p) == [i \in 1..Len(p) |-> CompareByte(p[i])]

\* Compare is transitive, and a path with the path prefix r lies in
\* [r, r + "\x02")
OrderTransitivePrefix ==
    /\ (pt.pq <= 0 /\ pt.qr <= 0) => pt.pr <= 0
    /\ (pt.pq < 0 /\ pt.qr <= 0) => pt.pr < 0
    /\ (pt.pq <= 0 /\ pt.qr < 0) => pt.pr < 0
    /\ pt.prefix => (pt.rp <= 0 /\ pt.limit < 0)

\* C11: Compare is transitive, p.Compare(q) == 0 exactly when p and q are
\* the same once their separators are read as byte 0, and every p with
\* p.HasPathPrefix(r) has r <= p < r + "\x02"
C11_TotalPreorder ==
    pt.done =>
        /\ OrderTransitivePrefix
        /\ pt.pq = 0 <=> CompareBytes(pt.p) = CompareBytes(pt.q)

\* C11 as stated: p.Compare(q) == 0 only for the same byte string
C11_TotalOrder ==
    pt.done =>
        /\ OrderTransitivePrefix
        /\ pt.pq = 0 => pt.p = pt.q

C11_Witness ==
    /\ pt.done /\ pathSeparator = Backslash
    /\ pt.p = <<120, Slash>> /\ pt.q = <<120, Backslash>> /\ pt.r = <<120>>
    /\ pt.pq = 0 /\ pt.prefix /\ pt.limit < 0

(***************************************************************************)
(* Merge applied to indexes on disk: indexes written by an IndexWriter in  *)
(* either format, and one written by an earlier Merge.                     *)
(***************************************************************************)
\* the contents abc, bcd and abcd
FileABC == <<97, 98, 99>>
FileBCD == <<98, 99, 100>>
FileABCD == <<97, 98, 99, 100>>

\* a file given to Add
File(name, f) == [name |-> name, f |-> f]

\* the roots and files (in Add order) of the written indexes, with the
\* format each is written in; the roots are a, b, c and a/x
MergeSamples ==
    <<[v |-> 2, roots |-> <<<<97>>, <<98>>, <<99>>>>,
       files |-> <<File(<<97, Slash, 120>>, FileABC), File(<<97, Slash, 121>>, FileBCD),
                   File(<<98, Slash, 120>>, FileABC), File(<<99>>, FileABCD)>>],
      [v |-> 1, roots |-> <<<<98>>>>,
       files |-> <<File(<<98, Slash, 120>>, FileBCD), File(<<98, Slash, 121>>, FileABC)>>],
      [v |-> 2, roots |-> <<<<97>>, <<99>>>>,
       files |-> <<File(<<97, Slash, 120>>, FileBCD), File(<<99>>, FileABC)>>],
      [v |-> 1, roots |-> <<<<97, Slash, 120>>>>,
       files |-> <<File(<<97, Slash, 120>>, FileABCD)>>],
      [v |-> 2, roots |-> << <<98>> >>, files |-> << >>] >>

\* the index file that an IndexWriter writes for the sample s
WriteSample(s) ==
    LET AddAll(ix) ==
            Iterate(LAMBDA t : [ix |-> Add(t.ix, s.files[t.i].name, s.files[t.i].f, s.v),
                                i |-> t.i + 1, done |-> t.i = Len(s.files)],
                    [ix |-> ix, i |-> 1, done |-> s.files = <<>>], Len(s.files)).ix
    IN Flush(AddAll(AddRoots(Create(s.v, npost), s.roots)), s.v).main

\* the trigrams looked up: abc, bcd, xyz (in no file) and the sentinel
MergeTrigrams == <<abc, bcd, Tri(120, 121, 122), invalidTrigram>>

\* what a reader can see of the opened index ix
Observe(ix) ==
    [roots |-> PathAll(Roots(ix), Len(ix.d)), numName |-> ix.numName,
     names |-> Names(ix, 0, ix.numName),
     byId |-> [i \in 1..ix.numName |-> Name(ix, i - 1)],
     lists |-> [k \in 1..Len(MergeTrigrams) |-> PostingList(ix, MergeTrigrams[k])]]

\* the opened index with what it is expected to hold
Indexed(d, roots, files) == [ix |-> Open(d), roots |-> roots, files |-> files]

\* the name lies in [r, r + "\x02") for a root r of roots
Shadowed(name, roots) ==
    \E k \in 1..Len(roots) :
        Compare(name, roots[k]) >= 0 /\ Compare(name, roots[k] \o <<2>>) < 0

\* the files of the set S in ascending order of name
RECURSIVE SortFiles(_)
SortFiles(S) ==
    IF S = {} THEN <<>>
    ELSE LET m == CHOOSE x \in S : \A y \in S : Compare(x.name, y.name) <= 0
         IN <<m>> \o SortFiles(S \ {m})

\* the files a merge of a (older) and b (newer) is to hold, in ID order
MergedFiles(a, b) ==
    SortFiles({a.files[k] : k \in {n \in 1..Len(a.files) :
                                      ~Shadowed(a.files[n].name, b.roots)}}
              \cup {b.files[k] : k \in 1..Len(b.files)})

\* the k-th sample written by an IndexWriter and opened
Written(k) ==
    Indexed(WriteSample(MergeSamples[k]), MergeSamples[k].roots, MergeSamples[k].files)

\* the output d of a Merge of the indexes a and b of the pool, opened
Kept(d, a, b) ==
    Indexed(d, mergeRoots(a.roots, b.roots, <<255>>), MergedFiles(a, b))

\* pool: the indexes on disk; x, y, to: the sources of the Merge about to be
\* called and the phase that follows it; r: how the last Merge ended and the
\* bytes it wrote; v: the writeVersion the process started with; m, left,
\* inner: the results of earlier calls
MergeInit ==
    /\ pathSeparator = Slash
    /\ writeVersion = 2
    /\ mg = [phase |-> "write", pool |-> << >>, to |-> "", x |-> Idle, y |-> Idle,
             r |-> Idle, a |-> 0, b |-> 0, c |-> 0, v |-> 0, m |-> Idle,
             left |-> Idle, inner |-> Idle, loop |-> Idle, was |-> Idle, rounds |-> 0]
    /\ pt = Idle /\ dc = Idle /\ nm = Idle /\ iw = Idle /\ mt = Idle /\ rd = Idle /\ ck = Idle /\ fs = Idle

\* the indexes on disk: the next sample is written and opened
MergeWrite ==
    /\ mg.phase = "write"
    /\ mg' = IF Len(mg.pool) < Len(MergeSamples)
             THEN [mg EXCEPT !.pool = Append(mg.pool, Written(Len(mg.pool) + 1))]
             ELSE [mg EXCEPT !.phase = "call", !.to = "kept",
                             !.x = mg.pool[1].ix, !.y = mg.pool[2].ix]
    /\ UNCHANGED <<pathSeparator, writeVersion, pt, dc, nm, iw, mt, rd, ck, fs>>

\* Merge(dst, x, y): r holds how the call ended and the bytes of dst
MergeRun ==
    /\ mg.phase = "call"
    /\ mg' = [mg EXCEPT !.phase = mg.to, !.r = Merge(mg.x, mg.y, writeVersion)]
    /\ writeVersion' = 2
    /\ UNCHANGED <<pathSeparator, pt, dc, nm, iw, mt, rd, ck, fs>>

\* the indexes on disk: the merge of the first two is kept as well
MergeKeep ==
    /\ mg.phase = "kept"
    /\ mg' = [mg EXCEPT !.phase = "start",
                        !.pool = Append(mg.pool, Kept(mg.r.d, mg.pool[1], mg.pool[2]))]
    /\ UNCHANGED <<pathSeparator, writeVersion, pt, dc, nm, iw, mt, rd, ck, fs>>

\* a process that starts with writeVersion v merges two indexes of the pool
MergePair ==
    /\ mg.phase = "start"
    /\ \E a \in 1..Len(mg.pool), b \in 1..Len(mg.pool), v \in {1, 2} :
          /\ mg' = [mg EXCEPT !.phase = "call", !.to = "merged", !.a = a, !.b = b,
                              !.v = v, !.x = mg.pool[a].ix, !.y = mg.pool[b].ix]
          /\ writeVersion' = v
    /\ UNCHANGED <<pathSeparator, pt, dc, nm, iw, mt, rd, ck, fs>>

\* the same Merge is called once more in the same process
MergeAgain ==
    /\ mg.phase = "merged"
    /\ mg' = [mg EXCEPT !.phase = "call", !.to = "again", !.m = mg.r]
    /\ UNCHANGED <<pathSeparator, writeVersion, pt, dc, nm, iw, mt, rd, ck, fs>>

\* with dst the merge of a and b: Merge(left, dst, c) for a third index c
MergeLeft ==
    /\ mg.phase = "merged" /\ mg.r.st = "ok"
    /\ \E c \in 1..Len(mg.pool) :
          mg' = [mg EXCEPT !.phase = "call", !.to = "left", !.m = mg.r, !.c = c,
                           !.x = Open(mg.r.d), !.y = mg.pool[c].ix]
    /\ UNCHANGED <<pathSeparator, writeVersion, pt, dc, nm, iw, mt, rd, ck, fs>>

\* Merge(inner, b, c)
MergeInner ==
    /\ mg.phase = "left"
    /\ mg' = [mg EXCEPT !.phase = "call", !.to = "inner", !.left = mg.r,
                        !.x = mg.pool[mg.b].ix, !.y = mg.pool[mg.c].ix]
    /\ UNCHANGED <<pathSeparator, writeVersion, pt, dc, nm, iw, mt, rd, ck, fs>>

\* Merge(right, a, inner), when the inner Merge returned
MergeRight ==
    /\ mg.phase = "inner"
    /\ mg' = IF mg.r.st = "ok"
             THEN [mg EXCEPT !.phase = "call", !.to = "three", !.inner = mg.r,
                             !.x = mg.pool[mg.a].ix, !.y = Open(mg.r.d)]
             ELSE [mg EXCEPT !.phase = "three", !.inner = mg.r]
    /\ UNCHANGED <<pathSeparator, writeVersion, pt, dc, nm, iw, mt, rd, ck, fs>>

\* Merge of two indexes of the pool up to its loop over the posting lists:
\* loop holds the two postMapReaders, the writer and old1, old2
MergeLoop ==
    /\ mg.phase = "start"
    /\ \E a \in 1..Len(mg.pool), b \in 1..Len(mg.pool) :
          LET Body(ix1, ix2, ids) ==
                 /\ ids.st = "ok"
                 /\ mg' = [mg EXCEPT !.phase = "loop", !.a = a, !.b = b, !.x = ix1, !.y = ix2,
                                     !.rounds = 0, !.was = Idle,
                                     !.loop = [r1 |-> postMapInit(ix1, ids.map1),
                                               r2 |-> postMapInit(ix2, ids.map2),
                                               w |-> postDataWriterInit(<<>>, TRUE, 2),
                                               old1 |-> 0, old2 |-> 0, st |-> "ok",
                                               done |-> FALSE]]
          IN  Body(mg.pool[a].ix, mg.pool[b].ix, idmaps(mg.pool[a].ix, mg.pool[b].ix))
    /\ UNCHANGED <<pathSeparator, writeVersion, pt, dc, nm, iw, mt, rd, ck, fs>>

\* one round of the loop over the posting lists; was holds the trigrams of
\* the two readers before the round
MergeRound ==
    /\ mg.phase = "loop" /\ ~mg.loop.done
    /\ mg' = [mg EXCEPT !.loop = mergeListsStep(mg.loop, mg.x, mg.y),
                        !.was = [phase |-> "round", t1 |-> mg.loop.r1.trigram,
                                 t2 |-> mg.loop.r2.trigram],
                        !.rounds = mg.rounds + 1]
    /\ UNCHANGED <<pathSeparator, writeVersion, pt, dc, nm, iw, mt, rd, ck, fs>>

NextMerge ==
    MergeWrite \/ MergeRun \/ MergeKeep \/ MergePair \/ MergeAgain \/ MergeLeft
        \/ MergeInner \/ MergeRight \/ MergeLoop \/ MergeRound

SpecMerge == MergeInit /\ [][NextMerge]_vars

\* the Merge returned and Open accepts what it wrote
Done(m) == m.st = "ok" /\ Open(m.d).ok

\* what a reader sees of dst
Seen(m) == Observe(Open(m.d))

\* the names a reader sees are those of files, in strictly ascending order
\* and numbered without gaps
NamesAre(dst, files) ==
    /\ dst.numName = Len(files)
    /\ dst.names = [k \in 1..Len(files) |-> files[k].name]
    /\ \A k \in 1..Len(files) : dst.byId[k] = files[k].name
    /\ \A k \in 1..(Len(files) - 1) : Compare(dst.names[k], dst.names[k + 1]) < 0

\* the posting lists a reader sees list, ascending, the positions of
\* exactly the files that hold the trigram
ListsAre(dst, files) ==
    \A k \in 1..Len(MergeTrigrams) :
        /\ Ascending(dst.lists[k])
        /\ \A i \in 1..Len(dst.lists[k]) : dst.lists[k][i] \in 0..(Len(files) - 1)
        /\ \A n \in 1..Len(files) :
              InList(dst.lists[k], n - 1) <=> MergeTrigrams[k] \in TrigramsOf(files[n].f)

\* every Merge that returns leaves the names and the posting lists of the
\* surviving files of A and the files of B
MergedWhenDone ==
    (mg.phase = "merged" /\ mg.r.st = "ok") =>
        /\ Done(mg.r)
        /\ NamesAre(Seen(mg.r), MergedFiles(mg.pool[mg.a], mg.pool[mg.b]))
        /\ ListsAre(Seen(mg.r), MergedFiles(mg.pool[mg.a], mg.pool[mg.b]))

\* the two ways of merging three indexes show the same when both return
AssociativeWhenDone ==
    (mg.phase = "three" /\ mg.left.st = "ok" /\ mg.r.st = "ok") =>
        Done(mg.left) /\ Done(mg.r) /\ Seen(mg.left) = Seen(mg.r)

\* the Merge of an index with itself shows the index when it returns
SelfWhenDone ==
    (mg.phase = "merged" /\ mg.a = mg.b /\ mg.r.st = "ok") =>
        Done(mg.r) /\ Seen(mg.r) = Observe(mg.pool[mg.a].ix)

\* C2: after Merge(dst, A, B) the names of dst are the names of A outside
\* [r, r + "\x02") for every root r of B together with the names of B, in
\* strictly ascending order, and Name(i) is the i-th of them
C2_MergedNames ==
    mg.phase = "merged" =>
        Done(mg.r) /\ NamesAre(Seen(mg.r), MergedFiles(mg.pool[mg.a], mg.pool[mg.b]))

\* C3: after Merge(dst, A, B), PostingList(t) of dst lists, ascending, the
\* new IDs of exactly the surviving files of A and the files of B that have
\* t, and so no ID of a shadowed file of A
C3_MergedPostingLists ==
    mg.phase = "merged" =>
        Done(mg.r) /\ ListsAre(Seen(mg.r), MergedFiles(mg.pool[mg.a], mg.pool[mg.b]))

\* C12: Merge(dst, A, A) completes and dst shows the roots, names, file IDs
\* and posting lists of A
C12_MergeSelf ==
    (mg.phase = "merged" /\ mg.a = mg.b) =>
        Done(mg.r) /\ Seen(mg.r) = Observe(mg.pool[mg.a].ix)

\* C13: merging A with B and the result with C shows the same roots, names,
\* file IDs and posting lists as merging A with the merge of B and C
C13_MergeAssociative ==
    mg.phase = "three" =>
        Done(mg.left) /\ Done(mg.r) /\ Seen(mg.left) = Seen(mg.r)

\* C20: a second Merge of the same sources writes the same bytes as the
\* first, whatever writeVersion was when the first was called
C20_MergeDeterministic ==
    mg.phase = "again" => mg.r.d = mg.m.d

(***************************************************************************)
(* Reads of an index file whose trailer names offsets outside the file: an *)
(* index is written, one offset of its trailer is overwritten, the file is *)
(* opened and read.                                                        *)
(***************************************************************************)
\* the trailer fields that hold offsets, by their position in the trailer
SliceFields(v) == IF v = 1 THEN 0..4 ELSE {0, 2, 4, 6, 7}

\* the file d of format v with the value x in field k of its trailer
PutField(d, v, k, x) ==
    LET w == IF v = 1 THEN 4 ELSE 8
        n == Len(d) - 16 - (IF v = 1 THEN 20 ELSE 64)
    IN SubSeq(d, 1, n + w * k) \o BigEndian(x, w) \o SubSeq(d, n + w * k + w + 1, Len(d))

\* offsets before, at and past the end of a file of length n
SliceValues(n) == {0, n - 1, n, n + 1, 2 * n}

\* the reads of an opened index
SliceOps ==
    {[op |-> "Roots", arg |-> 0], [op |-> "Name", arg |-> 0], [op |-> "Name", arg |-> 1],
     [op |-> "PostingList", arg |-> abc], [op |-> "PostingList", arg |-> bcd]}

\* how the read o of the index ix ends, and the offset of the open-ended
\* slice of posting data it asks for (-1 when it asks for none)
SliceResult(ix, o) ==
    LET Off(f) == IF f.st = "ok" /\ f.count > 0 THEN ix.postData + f.offset + 3 ELSE -1
        Read(r, f) == [st |-> r.st, off |-> Off(f)]
    IN IF ~ix.ok THEN [st |-> "corrupt", off |-> -1]
       ELSE IF o.op = "Roots"
       THEN [st |-> slice(ix, ix.pathData, ix.nameData - ix.pathData).st, off |-> -1]
       ELSE IF o.op = "Name" THEN [st |-> NamesAt(ix, o.arg, o.arg + 1).st, off |-> -1]
       ELSE Read(postRead(ix, o.arg, NilList), findList(ix, o.arg))

SliceInit ==
    /\ pathSeparator = Slash
    /\ writeVersion = 2
    /\ rd = [phase |-> "start"]
    /\ pt = Idle /\ dc = Idle /\ nm = Idle /\ iw = Idle /\ mg = Idle /\ mt = Idle
    /\ ck = Idle /\ fs = Idle

\* an index is written in one of the two formats
SliceWrite ==
    /\ rd.phase = "start"
    /\ \E k \in 1..2 :
          rd' = [phase |-> "written", v |-> MergeSamples[k].v,
                 d |-> WriteSample(MergeSamples[k])]
    /\ UNCHANGED <<pathSeparator, writeVersion, pt, dc, nm, iw, mg, mt, ck, fs>>

\* one offset of the trailer is overwritten and the file opened
SliceOpen ==
    /\ rd.phase = "written"
    /\ \E k \in SliceFields(rd.v), x \in SliceValues(Len(rd.d)) :
          rd' = [phase |-> "open", v |-> rd.v, d |-> rd.d, k |-> k, x |-> x,
                 ix |-> Open(PutField(rd.d, rd.v, k, x))]
    /\ UNCHANGED <<pathSeparator, writeVersion, pt, dc, nm, iw, mg, mt, ck, fs>>

\* a read of the opened index
SliceRead ==
    /\ rd.phase = "open"
    /\ \E o \in SliceOps :
          rd' = [rd EXCEPT !.phase = "read"] @@ [o |-> o, r |-> SliceResult(rd.ix, o)]
    /\ UNCHANGED <<pathSeparator, writeVersion, pt, dc, nm, iw, mg, mt, ck, fs>>

NextSlice == SliceWrite \/ SliceOpen \/ SliceRead

SpecSlice == SliceInit /\ [][NextSlice]_vars

\* C14: a read that follows an offset outside the file calls corrupt(): it
\* does not end in an out-of-range access, and an open-ended read of posting
\* data that starts past the end of the file is reported as corruption
C14_OffsetsChecked ==
    rd.phase = "read" =>
        /\ rd.r.st # "panic"
        /\ rd.r.off > Len(rd.d) => rd.r.st = "corrupt"

(***************************************************************************)
(* deltaReader.next on input that was not written by a deltaWriter: bytes  *)
(* that stop in the middle of a value or that code a value of more than 64 *)
(* bits.                                                                   *)
(***************************************************************************)
MaxPad == 10

\* k bytes b
Pad(k, b) == [i \in 1..k |-> b]

\* k equal bytes, one more byte, and none or eight bytes 0xFF
DeltaReadInputs ==
    {Pad(k, b) \o t \o Pad(j, 255) :
        k \in 0..MaxPad, b \in {0, 128, 255}, t \in {<< >>, <<1>>, <<2>>, <<128>>}, j \in {0, 8}}

\* bit n (from 0) of the input d, the low bit of each byte first
InputBit(d, n) == (d[(n \div 8) + 1] \div Pow2(n % 8)) % 2

\* the number of 0 bits of d before its first 1 bit; 8 * Len(d) if it has none
LeadingZeroBits(d) ==
    IF \A n \in 0..(8 * Len(d) - 1) : InputBit(d, n) = 0 THEN 8 * Len(d)
    ELSE CHOOSE z \in 0..(8 * Len(d) - 1) :
             InputBit(d, z) = 1 /\ \A n \in 0..(z - 1) : InputBit(d, n) = 0

\* the number of bytes of d before its first byte below 0x80; Len(d) if none
ContinuationBytes(d) ==
    IF \A i \in 1..Len(d) : d[i] >= 128 THEN Len(d)
    ELSE CHOOSE c \in 0..(Len(d) - 1) : d[c + 1] < 128 /\ \A i \in 1..c : d[i] >= 128

\* the input ends before the first value coded in d is complete
RunsOut(d, v) ==
    IF v = 2 THEN 8 * Len(d) < 2 * LeadingZeroBits(d) + 1
    ELSE ContinuationBytes(d) = Len(d)

\* the first value coded in d has more than 64 bits
TooWide(d, v) ==
    IF v = 2 THEN LeadingZeroBits(d) >= 64
    ELSE \/ ContinuationBytes(d) >= 10
         \/ ContinuationBytes(d) = 9 /\ Len(d) >= 10 /\ d[10] > 1

DeltaReadInit ==
    /\ pathSeparator = Slash
    /\ writeVersion = 2
    /\ dc = [phase |-> "start"]
    /\ pt = Idle /\ nm = Idle /\ iw = Idle /\ mg = Idle /\ mt = Idle /\ rd = Idle
    /\ ck = Idle /\ fs = Idle

\* r.init(ix, data) for an index of version v
DeltaReadFeed ==
    /\ dc.phase = "start"
    /\ \E v \in {1, 2}, d \in DeltaReadInputs :
          dc' = [phase |-> "fed", v |-> v, d |-> d, r |-> deltaReaderInit(d)]
    /\ UNCHANGED <<pathSeparator, writeVersion, pt, nm, iw, mg, mt, rd, ck, fs>>

\* r.next()
DeltaReadNext ==
    /\ dc.phase = "fed"
    /\ dc' = [dc EXCEPT !.phase = "read", !.r = deltaNext(dc.r, dc.v).r]
    /\ UNCHANGED <<pathSeparator, writeVersion, pt, nm, iw, mg, mt, rd, ck, fs>>

NextDeltaRead == DeltaReadFeed \/ DeltaReadNext

SpecDeltaRead == DeltaReadInit /\ [][NextDeltaRead]_vars

\* C15: next calls corrupt() whenever the input runs out before a value is
\* complete and whenever the value needs more than 64 bits, and returns a
\* value in every other case
C15_NextCorrupt ==
    dc.phase = "read" =>
        IF RunsOut(dc.d, dc.v) \/ TooWide(dc.d, dc.v) THEN dc.r.st = "corrupt"
        ELSE dc.r.st = "ok"

(***************************************************************************)
(* Index.Check (index/check.go) and corrupt().  An index is written, one   *)
(* part of the file is overwritten, the file is opened and checked, in a   *)
(* process with panicOnCorrupt false (production) or true (tests).         *)
(***************************************************************************)
\* ix.corrupt(): how the process goes on, by the value of panicOnCorrupt
corrupt(panicOnCorrupt) == IF panicOnCorrupt THEN "panic" ELSE "fatal"

\* Check: the loop "for range count" over the deltas of one posting list,
\* and the read of the terminator after it
checkDeltasStep(s, v) ==
    LET Read(x) ==
            IF x.r.st # "ok" THEN [s EXCEPT !.st = x.r.st, !.done = TRUE]
            ELSE IF s.count = 0
            THEN [s EXCEPT !.st = IF x.val # Zero64 THEN "corrupt" ELSE "ok", !.done = TRUE]
            ELSE IF x.val = Zero64 THEN [s EXCEPT !.st = "corrupt", !.done = TRUE]
            ELSE [s EXCEPT !.r = x.r, !.count = s.count - 1]
    IN Read(deltaNext(s.r, v))

\* Check: the posting list of the entry (t, count) at offset of pdata
checkList(pdata, t, count, offset, v) ==
    LET Deltas(plist) ==
            IF Len(plist) < 3 \/ Take(plist, 3) # t THEN "corrupt"
            ELSE Iterate(LAMBDA s : checkDeltasStep(s, v),
                         [r |-> deltaReaderInit(Drop(plist, 3)), count |-> count,
                          st |-> "ok", done |-> FALSE], count + 1).st
    IN IF offset > Len(pdata) THEN "panic" ELSE Deltas(Drop(pdata, offset))

\* Check: one round of the loop over the entries of a posting index block
checkEntryStep(s, pdata, v) ==
    LET Listed(st, c, o) ==
            IF st # "ok" THEN [s EXCEPT !.st = st, !.done = TRUE]
            ELSE [s EXCEPT !.b = Drop(s.b, 3 + c.n + o.n), !.offset = s.offset + o.val]
        Entry(c, o) ==
            IF o.n <= 0 THEN [s EXCEPT !.st = "corrupt", !.done = TRUE]
            ELSE Listed(checkList(pdata, Take(s.b, 3), c.val, s.offset + o.val, v), c, o)
        Count(c) ==
            IF c.n <= 0 THEN [s EXCEPT !.st = "corrupt", !.done = TRUE]
            ELSE Entry(c, UvarintInt(Drop(s.b, 3 + c.n)))
    IN IF ~(Len(s.b) > 3 /\ (s.b[1] # 0 \/ s.b[2] # 0 \/ s.b[3] # 0))
       THEN [s EXCEPT !.done = TRUE]
       ELSE Count(UvarintInt(Drop(s.b, 3)))

\* Check: one round of the loop over the posting index blocks
checkBlockStep(s, pblocks, pdata, v) ==
    LET Next(e) == [k |-> s.k + 1, st |-> e.st,
                    done |-> e.st # "ok" \/ (s.k + 1) * postBlockSize >= Len(pblocks)]
    IN Next(Iterate(LAMBDA e : checkEntryStep(e, pdata, v),
                    [b |-> SubSeq(pblocks, s.k * postBlockSize + 1,
                                  (s.k + 1) * postBlockSize),
                     offset |-> 0, st |-> "ok", done |-> FALSE], postBlockSize))

\* ix.Check(): "ok" when it returns nil, "corrupt" when it calls corrupt(),
\* "panic" when it ends in a run-time panic
Check(ix) ==
    LET Blocks(pblocks, pdata) ==
            IF pblocks.st # "ok" THEN pblocks.st
            ELSE IF pdata.st # "ok" THEN pdata.st
            ELSE Iterate(LAMBDA s : checkBlockStep(s, pblocks.b, pdata.b, ix.version),
                         [k |-> 0, st |-> "ok", done |-> pblocks.b = << >>],
                         ix.numPostBlock + 1).st
        NamesRead(r) ==
            IF r.st # "ok" THEN r.st
            ELSE Blocks(slice(ix, ix.postIndex, ix.numPostBlock * postBlockSize),
                        slice(ix, ix.postData, ix.nameIndex - ix.postData))
    IN IF ix.version = 1 THEN "ok" ELSE NamesRead(NamesAt(ix, 0, ix.numName))

\* the file d with the byte x at offset p
PutByte(d, p, x) == [d EXCEPT ![p + 1] = x]

\* the ways one part of the file ix.d of an opened index is overwritten:
\* a byte of the name list, a byte of the posting lists, the first entry
\* of the posting index, and the last byte of the trailer cut off
CheckDamage(ix) ==
    {[kind |-> "none", d |-> ix.d]}
    \cup {[kind |-> "name", d |-> PutByte(ix.d, p, x)] :
            p \in ix.nameData..(ix.postData - 1), x \in {0, 97, 255}}
    \cup {[kind |-> "list", d |-> PutByte(ix.d, p, x)] :
            p \in ix.postData..(ix.nameIndex - 1), x \in {0, 255}}
    \cup {[kind |-> "block",
           d |-> PutByte(PutByte(PutByte(ix.d, ix.postIndex, 0), ix.postIndex + 1, 0),
                         ix.postIndex + 2, 0)]}
    \cup {[kind |-> "trailer", d |-> Take(ix.d, Len(ix.d) - 1)]}

CheckInit ==
    /\ pathSeparator = Slash
    /\ writeVersion = 2
    /\ ck = [phase |-> "start"]
    /\ pt = Idle /\ dc = Idle /\ nm = Idle /\ iw = Idle /\ mg = Idle /\ mt = Idle
    /\ rd = Idle /\ fs = Idle

\* an index is written in one of the two formats, by a process that runs
\* with panicOnCorrupt false or true
CheckWrite ==
    /\ ck.phase = "start"
    /\ \E k \in 1..2, p \in BOOLEAN :
          ck' = [phase |-> "written", panicOnCorrupt |-> p,
                 ix |-> Open(WriteSample(MergeSamples[k]))]
    /\ UNCHANGED <<pathSeparator, writeVersion, pt, dc, nm, iw, mg, mt, rd, fs>>

\* the file is damaged
CheckTamper ==
    /\ ck.phase = "written"
    /\ \E t \in CheckDamage(ck.ix) :
          ck' = [phase |-> "damaged", panicOnCorrupt |-> ck.panicOnCorrupt,
                 kind |-> t.kind, d |-> t.d]
    /\ UNCHANGED <<pathSeparator, writeVersion, pt, dc, nm, iw, mg, mt, rd, fs>>

\* Open(file): st is "ok", or "corrupt" with out telling how corrupt() ended
CheckOpen ==
    /\ ck.phase = "damaged"
    /\ LET Opened(ix) ==
               [ck EXCEPT !.phase = "open"] @@
               [ix |-> ix, op |-> "Open", st |-> IF ix.ok THEN "ok" ELSE "corrupt",
                out |-> IF ix.ok THEN "return" ELSE corrupt(ck.panicOnCorrupt)]
       IN ck' = Opened(Open(ck.d))
    /\ UNCHANGED <<pathSeparator, writeVersion, pt, dc, nm, iw, mg, mt, rd, fs>>

\* ix.Check(), which runs with panicOnCorrupt set and restores it on return
CheckRun ==
    /\ ck.phase = "open" /\ ck.st = "ok"
    /\ LET Checked(st) ==
               [ck EXCEPT !.phase = "checked", !.op = "Check", !.st = st,
                          !.out = IF st = "ok" THEN "return"
                                  ELSE IF st = "corrupt" THEN corrupt(TRUE) ELSE "panic"]
       IN ck' = Checked(Check(ck.ix))
    /\ UNCHANGED <<pathSeparator, writeVersion, pt, dc, nm, iw, mg, mt, rd, fs>>

NextCheck == CheckWrite \/ CheckTamper \/ CheckOpen \/ CheckRun

SpecCheck == CheckInit /\ [][NextCheck]_vars

\* the names an index shows are fewer than numName or not strictly ascending
NamesBad(ix) ==
    LET Bad(ns) == \/ Len(ns) < ix.numName
                   \/ \E k \in 1..(Len(ns) - 1) : Compare(ns[k], ns[k + 1]) >= 0
    IN Bad(Names(ix, 0, ix.numName))

\* a posting list of the index is not its count of positive deltas
\* followed by the terminator 0
ListsBad(ix) ==
    \E k \in 1..Len(MergeTrigrams) : postRead(ix, MergeTrigrams[k], NilList).st = "corrupt"

\* the first entry of a block of the posting index is zero
BlockZeroed(ix) ==
    /\ ix.numPost > 0
    /\ TrigramAt(ix.d, ix.postIndex) = 0

\* C16: Check reports a failure whenever the names are not strictly
\* ascending or fewer than numName, a posting list is not its count of
\* positive deltas followed by 0, or the first entry of a posting index
\* block is zeroed
C16_CheckDetects ==
    (ck.phase = "checked" /\ (NamesBad(ck.ix) \/ ListsBad(ck.ix) \/ BlockZeroed(ck.ix)))
        => ck.out # "return"

\* C17: with panicOnCorrupt false, corruption found by Open or by Check ends
\* in the logged exit of log.Fatal and never in a panic; with panicOnCorrupt
\* true it ends in a panic
C17_CorruptExits ==
    (ck.phase \in {"open", "checked"} /\ ck.st = "corrupt") =>
        ck.out = IF ck.panicOnCorrupt THEN "panic" ELSE "fatal"

(***************************************************************************)
(* The temporary files of an IndexWriter: Create makes them, Add and       *)
(* flushPost write to them, Flush copies them into the index and removes   *)
(* them.  A reader passed to Add may panic, and a write or the merge of    *)
(* the posting lists may fail in the middle of Flush.                      *)
(***************************************************************************)
MaxTempAdds == 8

MaxTempSpills == 3

\* the files Create makes with bufCreate("")
TempFiles == {"nameData", "nameIndex", "postFile", "postIndex"}

\* the steps of Flush in order; the temporary files are removed in step
\* "remove" and in no other
FlushSteps ==
    <<"header", "roots", "names", "mergePost", "nameIndex", "postIndex", "trailer",
      "remove", "flush">>

\* the temporary files left when Flush has run its first n steps
TempAfter(temps, n) ==
    IF \E k \in 1..n : FlushSteps[k] = "remove" THEN temps \ TempFiles ELSE temps

TempInit ==
    /\ pathSeparator = Slash
    /\ writeVersion = 2
    /\ fs = [phase |-> "start", temps |-> {}, adds |-> 0, spills |-> 0, end |-> "",
             step |-> 0]
    /\ pt = Idle /\ dc = Idle /\ nm = Idle /\ iw = Idle /\ mg = Idle /\ mt = Idle
    /\ rd = Idle /\ ck = Idle

\* Create(file)
TempCreate ==
    /\ fs.phase = "start"
    /\ fs' = [fs EXCEPT !.phase = "open", !.temps = TempFiles]
    /\ UNCHANGED <<pathSeparator, writeVersion, pt, dc, nm, iw, mg, mt, rd, ck>>

\* ix.Add(name, f) with a reader that returns its data
TempAdd ==
    /\ fs.phase = "open"
    /\ fs.adds < MaxTempAdds
    /\ fs' = [fs EXCEPT !.adds = fs.adds + 1]
    /\ UNCHANGED <<pathSeparator, writeVersion, pt, dc, nm, iw, mg, mt, rd, ck>>

\* ix.flushPost(), called by Add when the posting buffer is full
TempSpill ==
    /\ fs.phase = "open"
    /\ fs.adds > 0 /\ fs.spills < MaxTempSpills
    /\ fs' = [fs EXCEPT !.spills = fs.spills + 1]
    /\ UNCHANGED <<pathSeparator, writeVersion, pt, dc, nm, iw, mg, mt, rd, ck>>

\* ix.Add(name, f) with a reader whose Read panics: the panic leaves Add
TempAddPanic ==
    /\ fs.phase = "open"
    /\ fs' = [fs EXCEPT !.phase = "ended", !.end = "Add panics"]
    /\ UNCHANGED <<pathSeparator, writeVersion, pt, dc, nm, iw, mg, mt, rd, ck>>

\* ix.Flush() that returns
TempFlush ==
    /\ fs.phase = "open"
    /\ fs' = [fs EXCEPT !.phase = "ended", !.end = "Flush returns",
                        !.step = Len(FlushSteps),
                        !.temps = TempAfter(fs.temps, Len(FlushSteps))]
    /\ UNCHANGED <<pathSeparator, writeVersion, pt, dc, nm, iw, mg, mt, rd, ck>>

\* ix.Flush() that panics in its step n + 1, after n steps
TempFlushPanic ==
    /\ fs.phase = "open"
    /\ \E n \in 0..(Len(FlushSteps) - 1) :
          fs' = [fs EXCEPT !.phase = "ended", !.end = "Flush panics", !.step = n,
                           !.temps = TempAfter(fs.temps, n)]
    /\ UNCHANGED <<pathSeparator, writeVersion, pt, dc, nm, iw, mg, mt, rd, ck>>

NextTemp ==
    TempCreate \/ TempAdd \/ TempSpill \/ TempAddPanic \/ TempFlush \/ TempFlushPanic

SpecTemp == TempInit /\ [][NextTemp]_vars

\* C18: whichever way the work of the writer ends, by Flush returning, by
\* a panic in Flush or by a panic of the reader in Add, none of its
\* temporary files is left
C18_TempFilesRemoved ==
    fs.phase = "ended" => fs.temps = {}

(***************************************************************************)
(* A run of cindex over the files on disk: the master index, the new       *)
(* index "master~" and the merged index "master~~".  The content of a      *)
(* file is "absent", "old" (the complete previous index), "partial" (a     *)
(* file opened with O_TRUNC and not yet written in full), "new" (the       *)
(* complete index of this run) or "merged" (the complete merge of old and  *)
(* new).                                                                   *)
(***************************************************************************)
MaxCindexArgs == 2

MaxCindexFiles == 4

\* the state at the start of main: flags, arguments and the master index
CindexInit ==
    /\ pathSeparator = Slash
    /\ writeVersion = 2
    /\ \E had \in BOOLEAN, reset \in BOOLEAN, check \in BOOLEAN, nargs \in 0..MaxCindexArgs :
          fs = [pc |-> "start", had |-> had, asked |-> reset, resetFlag |-> reset,
                checkFlag |-> check, nargs |-> nargs, file |-> "",
                master |-> IF had THEN "old" ELSE "absent", new |-> "absent",
                merged |-> "absent", n |-> 0]
    /\ pt = Idle /\ dc = Idle /\ nm = Idle /\ iw = Idle /\ mg = Idle /\ mt = Idle
    /\ rd = Idle /\ ck = Idle

\* if *resetFlag && flag.NArg() == 0 { os.Remove(index.File()); return }
CindexReset ==
    /\ fs.pc = "start"
    /\ fs.resetFlag /\ fs.nargs = 0
    /\ fs' = [fs EXCEPT !.pc = "done", !.master = "absent"]
    /\ UNCHANGED <<pathSeparator, writeVersion, pt, dc, nm, iw, mg, mt, rd, ck>>

\* the roots: those of the master index when there are no arguments (Open
\* of a missing file is a log.Fatal), the arguments otherwise
CindexRoots ==
    /\ fs.pc = "start"
    /\ ~(fs.resetFlag /\ fs.nargs = 0)
    /\ fs' = [fs EXCEPT !.pc = IF fs.nargs = 0 /\ fs.master = "absent" THEN "fatal"
                                 ELSE "stat"]
    /\ UNCHANGED <<pathSeparator, writeVersion, pt, dc, nm, iw, mg, mt, rd, ck>>

\* the new index always built in the master path
CindexFileMaster(reset) == "master"

\* file := master; if !*resetFlag { file += "~" }
CindexFile(reset) == IF reset THEN "master" ELSE "new"

\* master := index.File(); a missing master sets *resetFlag; file is the
\* master itself under -reset and master~ otherwise
CindexStat ==
    /\ fs.pc = "stat"
    /\ LET Body(reset) ==
              fs' = [fs EXCEPT !.resetFlag = reset,
                               !.file = CindexFile(reset),
                               !.pc = IF ~reset /\ fs.checkFlag THEN "check master"
                                      ELSE "create"]
       IN  Body(fs.resetFlag \/ fs.master = "absent")
    /\ UNCHANGED <<pathSeparator, writeVersion, pt, dc, nm, iw, mg, mt, rd, ck>>

\* the step that follows a check that passes
AfterCheck(pc) ==
    CASE pc = "check master" -> "create"
      [] pc = "check merged" -> "remove"
      [] pc = "check new" -> "done"

\* if *checkFlag { ix := index.Open(...); ix.Check() }: the check passes
\* or ends the run
CindexCheck ==
    /\ fs.pc \in {"check master", "check merged", "check new"}
    /\ \E ok \in BOOLEAN :
          fs' = [fs EXCEPT !.pc = IF ok THEN AfterCheck(fs.pc) ELSE "fatal"]
    /\ UNCHANGED <<pathSeparator, writeVersion, pt, dc, nm, iw, mg, mt, rd, ck>>

\* ix := index.Create(file): bufCreate opens file with O_CREATE|O_TRUNC
CindexCreate ==
    /\ fs.pc = "create"
    /\ fs' = [fs EXCEPT !.pc = "add", ![fs.file] = "partial", !.n = 0]
    /\ UNCHANGED <<pathSeparator, writeVersion, pt, dc, nm, iw, mg, mt, rd, ck>>

\* ix.AddFile(path) for one more file of the walk
CindexAdd ==
    /\ fs.pc = "add"
    /\ fs.n < MaxCindexFiles
    /\ fs' = [fs EXCEPT !.n = fs.n + 1]
    /\ UNCHANGED <<pathSeparator, writeVersion, pt, dc, nm, iw, mg, mt, rd, ck>>

\* ix.Flush(): file holds the complete new index
CindexFlush ==
    /\ fs.pc = "add"
    /\ fs' = [fs EXCEPT ![fs.file] = "new",
                        !.pc = IF ~fs.resetFlag THEN "merge"
                               ELSE IF fs.checkFlag THEN "check new" ELSE "done"]
    /\ UNCHANGED <<pathSeparator, writeVersion, pt, dc, nm, iw, mg, mt, rd, ck>>

\* index.Merge(file+"~", master, file): Merge returns with the merged
\* index written, or panics with it written in part
CindexMerge ==
    /\ fs.pc = "merge"
    /\ \E ok \in BOOLEAN :
          fs' = [fs EXCEPT !.merged = IF ok THEN "merged" ELSE "partial",
                           !.pc = IF ~ok THEN "panic"
                                  ELSE IF fs.checkFlag THEN "check merged" ELSE "remove"]
    /\ UNCHANGED <<pathSeparator, writeVersion, pt, dc, nm, iw, mg, mt, rd, ck>>

\* os.Remove(file)
CindexRemove ==
    /\ fs.pc = "remove"
    /\ fs' = [fs EXCEPT !.pc = "rename", !.new = "absent"]
    /\ UNCHANGED <<pathSeparator, writeVersion, pt, dc, nm, iw, mg, mt, rd, ck>>

\* os.Rename(file+"~", master)
CindexRename ==
    /\ fs.pc = "rename"
    /\ fs' = [fs EXCEPT !.pc = "done", !.master = fs.merged, !.merged = "absent"]
    /\ UNCHANGED <<pathSeparator, writeVersion, pt, dc, nm, iw, mg, mt, rd, ck>>

NextCindex ==
    \/ CindexReset \/ CindexRoots \/ CindexStat \/ CindexCheck \/ CindexCreate
    \/ CindexAdd \/ CindexFlush \/ CindexMerge \/ CindexRemove \/ CindexRename

SpecCindex == CindexInit /\ [][NextCindex]_vars

\* the master index holds a complete index
MasterComplete == fs.master \in {"old", "new", "merged"}

\* C19 (amended): in a run of cindex without -reset over an existing
\* master index the master holds a complete index at every moment: the
\* previous one until the rename and the merged one after it
C19_MasterKeptWithoutReset ==
    (fs.had /\ ~fs.asked) =>
        /\ MasterComplete
        /\ fs.pc # "done" => fs.master = "old"
        /\ fs.pc = "done" => fs.master = "merged"

\* a run without -reset has renamed the merged index onto the master
C19_Witness ==
    fs.had /\ ~fs.asked /\ fs.pc = "done" /\ fs.master = "merged" /\ fs.n > 0

\* C19 (as stated): in every run of cindex that indexes paths over an
\* existing master index, with or without -reset, the master is never
\* truncated or written in place: at every moment it holds a complete index
C19_MasterNeverInPlace ==
    (fs.had /\ fs.nargs > 0) => MasterComplete

(***************************************************************************)
(* The byte DFA matcher.  A regular expression is a tree of byte ranges,   *)
(* empty-width assertions, concatenation, alternation, repetition and      *)
(* groups; Compile turns it into the program the matcher runs, and         *)
(* MatchEnds is what the expression means: the positions where a match     *)
(* starting at a given position can end.                                   *)
(***************************************************************************)
MaxMatchLen == 4

NL == 10

endText == -1

\* the bytes of the buffers: a, b, A, space and newline
MatchAlphabet == {97, 98, 65, 32, NL}

ByteRange(lo, hi) == [t |-> "byte", lo |-> lo, hi |-> hi, fold |-> FALSE]
Lit(c) == ByteRange(c, c)
FoldLit(c) == [t |-> "byte", lo |-> c, hi |-> c, fold |-> TRUE]
Empty(op) == [t |-> "empty", op |-> {op}]
Cat(x, y) == [t |-> "cat", x |-> x, y |-> y]
Alt(x, y) == [t |-> "alt", x |-> x, y |-> y]
Star(x) == [t |-> "star", x |-> x]
Group(x) == [t |-> "group", x |-> x]

\* any byte but newline
Dot == Alt(ByteRange(0, NL - 1), ByteRange(NL + 1, 255))

\* the expressions compiled: ab, a|b, a*b, (?m)^a, (?m)a$, (?m)^$, \Aa, a\z,
\* \ba, a\B, (?i)a, a.b, (a)b, a\nb, a\n, \n
RegexSamples ==
    <<Cat(Lit(97), Lit(98)),
      Alt(Lit(97), Lit(98)),
      Cat(Star(Lit(97)), Lit(98)),
      Cat(Empty("BeginLine"), Lit(97)),
      Cat(Lit(97), Empty("EndLine")),
      Cat(Empty("BeginLine"), Empty("EndLine")),
      Cat(Empty("BeginText"), Lit(97)),
      Cat(Lit(97), Empty("EndText")),
      Cat(Empty("WordBoundary"), Lit(97)),
      Cat(Lit(97), Empty("NoWordBoundary")),
      FoldLit(65),
      Cat(Lit(97), Cat(Dot, Lit(98))),
      Cat(Group(Lit(97)), Lit(98)),
      Cat(Lit(97), Cat(Lit(NL), Lit(98))),
      Cat(Lit(97), Lit(NL)),
      Lit(NL)>>

Inst(op, out, arg, empty, lo, hi, fold) ==
    [Op |-> op, Out |-> out, Arg |-> arg, Empty |-> empty, Lo |-> lo, Hi |-> hi,
     Fold |-> fold]

\* the instructions of re appended to insts, continuing at out; in is the
\* instruction where re starts
RECURSIVE compile(_, _, _)
compile(re, insts, out) ==
    CASE re.t = "byte" ->
           [insts |-> Append(insts, Inst("ByteRange", out, 0, {}, re.lo, re.hi, re.fold)),
            in |-> Len(insts)]
      [] re.t = "empty" ->
           [insts |-> Append(insts, Inst("EmptyWidth", out, 0, re.op, 0, 0, FALSE)),
            in |-> Len(insts)]
      [] re.t = "cat" ->
           LET Front(y) == compile(re.x, y.insts, y.in)
           IN  Front(compile(re.y, insts, out))
      [] re.t = "alt" ->
           LET Both(x, y) ==
                  [insts |-> Append(y.insts, Inst("Alt", x.in, y.in, {}, 0, 0, FALSE)),
                   in |-> Len(y.insts)]
               Second(x) == Both(x, compile(re.y, x.insts, out))
           IN  Second(compile(re.x, insts, out))
      [] re.t = "star" ->
           LET Loop(x) ==
                  [insts |-> [x.insts EXCEPT ![Len(insts) + 1].Out = x.in],
                   in |-> Len(insts)]
           IN  Loop(compile(re.x, Append(insts, Inst("Alt", 0, out, {}, 0, 0, FALSE)),
                            Len(insts)))
      [] re.t = "group" ->
           LET Open1(x) ==
                  [insts |-> Append(x.insts, Inst("Capture", x.in, 0, {}, 0, 0, FALSE)),
                   in |-> Len(x.insts)]
           IN  Open1(compile(re.x, Append(insts, Inst("Capture", out, 0, {}, 0, 0, FALSE)),
                             Len(insts)))

\* the program of re: instruction 0 fails, instruction 1 matches
Compile(re) ==
    LET Prog(x) == [Inst |-> x.insts, Start |-> x.in]
    IN  Prog(compile(re, <<Inst("Fail", 0, 0, {}, 0, 0, FALSE),
                           Inst("Match", 0, 0, {}, 0, 0, FALSE)>>, 1))

\* isWordByte(c): ASCII letters, digits and underscore
isWordByte(c) ==
    \/ 65 <= c /\ c <= 90
    \/ 97 <= c /\ c <= 122
    \/ 48 <= c /\ c <= 57
    \/ c = 95

\* q.Has(id)
Has(q, id) == \E k \in 1..Len(q) : q[k] = id

\* m.addq(q, id, flag)
RECURSIVE addq(_, _, _, _)
addq(prog, q, id, flag) ==
    IF Has(q, id) THEN q
    ELSE LET i == prog.Inst[id + 1]
         IN  CASE i.Op \in {"Capture", "Nop"} -> addq(prog, Append(q, id), i.Out, flag)
               [] i.Op \in {"Alt", "AltMatch"} ->
                    addq(prog, addq(prog, Append(q, id), i.Out, flag), i.Arg, flag)
               [] i.Op = "EmptyWidth" ->
                    IF i.Empty \subseteq flag THEN addq(prog, Append(q, id), i.Out, flag)
                    ELSE Append(q, id)
               [] OTHER -> Append(q, id)

\* m.stepEmpty(runq, nextq, flag), from the k-th element of runq on
RECURSIVE stepEmpty(_, _, _, _, _)
stepEmpty(prog, runq, nextq, flag, k) ==
    IF k > Len(runq) THEN nextq
    ELSE stepEmpty(prog, runq, addq(prog, nextq, runq[k], flag), flag, k + 1)

\* the body of the loop of stepByte for the instruction runq[k]
stepByteInst(prog, s, id, c, flag) ==
    LET i == prog.Inst[id + 1]
        ch == IF i.Fold /\ 97 <= c /\ c <= 122 THEN c - 32 ELSE c
    IN  CASE i.Op = "Match" -> [s EXCEPT !.match = TRUE]
          [] i.Op = "ByteRange" ->
               IF c # endText /\ i.Lo <= ch /\ ch <= i.Hi
               THEN [s EXCEPT !.q = addq(prog, s.q, i.Out, flag)]
               ELSE s
          [] OTHER -> s

RECURSIVE stepByteFrom(_, _, _, _, _, _)
stepByteFrom(prog, runq, s, c, flag, k) ==
    IF k > Len(runq) THEN s
    ELSE stepByteFrom(prog, runq, stepByteInst(prog, s, runq[k], c, flag), c, flag, k + 1)

\* m.stepByte(runq, nextq, c, flag)
stepByte(prog, runq, c, flag) ==
    stepByteFrom(prog, runq, [match |-> FALSE, q |-> addq(prog, << >>, prog.Start, flag)],
                 c, flag, 1)

\* sort.Ints of the elements of a set
RECURSIVE SortInts(_)
SortInts(S) ==
    IF S = {} THEN << >>
    ELSE LET m == CHOOSE x \in S : \A y \in S : x <= y
         IN  <<m>> \o SortInts(S \ {m})

\* z.enc(): the flags and the sorted instruction IDs
enc(z) == [flag |-> z.flag, ids |-> SortInts({z.q[k] : k \in 1..Len(z.q)})]

\* z.dec(s)
dec(s) == [q |-> s.ids, flag |-> s.flag]

\* the state of a match seen, waiting for the end of the line
dmatch == [dmatch |-> TRUE, enc |-> enc([q |-> << >>, flag |-> {}])]

\* m.cache(z): the DFA state of z, found by its encoding
cache(z) == [dmatch |-> FALSE, enc |-> enc(z)]

\* the flags before c without those of the line and of the word boundary
flagBeforeText(this, c) == IF "BOT" \in this.flag THEN {"BeginText"} ELSE {}

\* the flags in effect before c in computeNext
flagBefore(this, c) ==
    (IF "BOL" \in this.flag THEN {"BeginLine"} ELSE {})
    \cup (IF "BOT" \in this.flag THEN {"BeginText"} ELSE {})
    \cup (IF ("Word" \in this.flag) # isWordByte(c) THEN {"WordBoundary"}
          ELSE {"NoWordBoundary"})
    \cup (IF c = NL THEN {"EndLine"} ELSE {})
    \cup (IF c = endText THEN {"EndLine", "EndText"} ELSE {})

\* m.computeNext(d, c)
computeNext(prog, d, c) ==
    LET Next(s) ==
           IF s.match THEN dmatch
           ELSE cache([q |-> s.q,
                       flag |-> (IF c = NL THEN {"BOL"} ELSE {})
                                \cup (IF isWordByte(c) THEN {"Word"} ELSE {})])
        Step(this) ==
           Next(stepByte(prog, stepEmpty(prog, this.q, << >>, flagBefore(this, c), 1), c,
                         IF c = NL THEN {"BeginLine"} ELSE {}))
    IN  Step(dec(d.enc))

\* d.matchNL and d.matchEOT, which cache computes for a new state
matchNL(prog, d) == d.dmatch \/ computeNext(prog, d, NL) = dmatch
matchEOT(prog, d) == d.dmatch \/ computeNext(prog, d, endText) = dmatch

\* m.init(prog): the start states
matcherInit(prog) ==
    [prog |-> prog,
     start |-> cache([q |-> addq(prog, << >>, prog.Start, {"BeginLine", "BeginText"}),
                      flag |-> {"BOL", "BOT"}]),
     startLine |-> cache([q |-> addq(prog, << >>, prog.Start, {"BeginLine"}),
                          flag |-> {"BOL"}])]

\* one round of the loop of match, for the byte b[s.i + 1]
matchStep(m, b, s) ==
    LET c == b[s.i + 1]
    IN  IF s.d.dmatch /\ c # NL THEN [s EXCEPT !.i = s.i + 1, !.done = s.i + 1 = Len(b)]
        ELSE IF c = NL
        THEN IF matchNL(m.prog, s.d) THEN [s EXCEPT !.end = s.i, !.done = TRUE]
             ELSE [s EXCEPT !.d = m.startLine, !.i = s.i + 1, !.done = s.i + 1 = Len(b)]
        ELSE [s EXCEPT !.d = computeNext(m.prog, s.d, c), !.i = s.i + 1,
                       !.done = s.i + 1 = Len(b)]

\* m.match(b, beginText, endText)
match(m, b, beginText, atEnd) ==
    LET Result(s) ==
           IF s.end >= 0 THEN s.end
           ELSE IF matchNL(m.prog, s.d) \/ (atEnd /\ matchEOT(m.prog, s.d)) THEN Len(b)
           ELSE -1
        MatchRound(s) == matchStep(m, b, s)
    IN  Result(Iterate(MatchRound,
                       [d |-> IF beginText THEN m.start ELSE m.startLine, i |-> 0,
                        end |-> -1, done |-> b = << >>], Len(b)))

\* the empty-width assertions that hold at position i of b
FlagsAt(b, i) ==
    LET before == IF i > 0 THEN b[i] ELSE endText
        after == IF i < Len(b) THEN b[i + 1] ELSE endText
    IN  (IF i = 0 THEN {"BeginText", "BeginLine"} ELSE {})
        \cup (IF before = NL THEN {"BeginLine"} ELSE {})
        \cup (IF i = Len(b) THEN {"EndText", "EndLine"} ELSE {})
        \cup (IF after = NL THEN {"EndLine"} ELSE {})
        \cup (IF isWordByte(before) # isWordByte(after) THEN {"WordBoundary"}
              ELSE {"NoWordBoundary"})

\* the byte c is one of re, a byte range
InRange(re, c) ==
    \/ re.lo <= c /\ c <= re.hi
    \/ re.fold /\ 97 <= c /\ c <= 122 /\ re.lo <= c - 32 /\ c - 32 <= re.hi

\* the positions where a match of re in b that starts at position i can end
RECURSIVE MatchEnds(_, _, _)
RECURSIVE StarEnds(_, _, _, _)
MatchEnds(re, b, i) ==
    CASE re.t = "byte" -> IF i < Len(b) /\ InRange(re, b[i + 1]) THEN {i + 1} ELSE {}
      [] re.t = "empty" -> IF re.op \subseteq FlagsAt(b, i) THEN {i} ELSE {}
      [] re.t = "cat" -> UNION {MatchEnds(re.y, b, j) : j \in MatchEnds(re.x, b, i)}
      [] re.t = "alt" -> MatchEnds(re.x, b, i) \cup MatchEnds(re.y, b, i)
      [] re.t = "star" -> StarEnds(re.x, b, {i}, Len(b) + 1)
      [] re.t = "group" -> MatchEnds(re.x, b, i)

StarEnds(x, b, S, n) ==
    LET More(T) == IF n = 0 \/ T \subseteq S THEN S ELSE StarEnds(x, b, S \cup T, n - 1)
    IN  More(UNION {MatchEnds(x, b, j) : j \in S})

\* b contains a match of re
ContainsMatch(re, b) == \E i \in 0..Len(b) : MatchEnds(re, b, i) # {}

\* b contains a match of re that lies within one line
ContainsLineMatch(re, b) ==
    \E i \in 0..Len(b) : \E j \in MatchEnds(re, b, i) : \A k \in (i + 1)..j : b[k] # NL

MatchInit ==
    /\ pathSeparator = Slash
    /\ writeVersion = 2
    /\ mt = [phase |-> "start"]
    /\ pt = Idle /\ dc = Idle /\ nm = Idle /\ iw = Idle /\ mg = Idle
    /\ rd = Idle /\ ck = Idle /\ fs = Idle

\* Compile(expr) and m.init(prog)
MatchCompile ==
    /\ mt.phase = "start"
    /\ \E k \in 1..Len(RegexSamples) :
          mt' = [phase |-> "compiled", re |-> RegexSamples[k],
                 m |-> matcherInit(Compile(RegexSamples[k])), b |-> << >>, end |-> -1]
    /\ UNCHANGED <<pathSeparator, writeVersion, pt, dc, nm, iw, mg, rd, ck, fs>>

\* m.match(b, true, true)
MatchRun ==
    /\ mt.phase = "compiled"
    /\ \E b \in BoundedSeq(MatchAlphabet, MaxMatchLen) :
          mt' = [mt EXCEPT !.phase = "matched", !.b = b, !.end = match(mt.m, b, TRUE, TRUE)]
    /\ UNCHANGED <<pathSeparator, writeVersion, pt, dc, nm, iw, mg, rd, ck, fs>>

NextMatch == MatchCompile \/ MatchRun

SpecMatch == MatchInit /\ [][NextMatch]_vars

\* C4 (as stated): match(b, true, true) returns a non-negative end index if
\* and only if b contains a match of the regex, and -1 otherwise
C4_MatchIffContains ==
    mt.phase = "matched" =>
        /\ mt.end >= 0 <=> ContainsMatch(mt.re, mt.b)
        /\ mt.end < 0 => mt.end = -1

\* C4 (amended): match(b, true, true) returns a non-negative end index if
\* and only if b contains a match of the regex that lies within one line,
\* and -1 otherwise
C4_MatchIffLineMatch ==
    mt.phase = "matched" =>
        /\ mt.end >= 0 <=> ContainsLineMatch(mt.re, mt.b)
        /\ mt.end < 0 => mt.end = -1

\* a buffer of two lines whose second line holds the match
C4_Witness ==
    /\ mt.phase = "matched"
    /\ mt.end = Len(mt.b)
    /\ \E k \in 1..(Len(mt.b) - 1) : mt.b[k] = NL
    /\ ContainsLineMatch(mt.re, mt.b)

(***************************************************************************)
(* Grep.Reader over files shorter than the buffer of 1<<20 bytes: the      *)
(* first io.ReadFull returns the whole file with an error, so endText is   *)
(* true and the inner loop runs over the whole file once.  The regexp is   *)
(* the literal a.                                                          *)
(***************************************************************************)
MaxGrepLen == 3

MaxGrepLimit == 2

GrepAlphabet == {97, 98, NL}

\* the last position of NL in b[from + 1 .. to], or -1 (bytes.LastIndex)
LastNL(b, from, to) ==
    IF \E k \in (from + 1)..to : b[k] = NL
    THEN (CHOOSE k \in (from + 1)..to : b[k] = NL /\ \A j \in (k + 1)..to : b[j] # NL)
         - from - 1
    ELSE -1

\* g.Regexp.Match(b, beginText, endText)
RegexpMatch(m, b, beginText, atEnd) == match(m, b, beginText, atEnd)

\* the limit test with > in place of >=
AtLimitOver(g) == g.Limit > 0 /\ g.Matches > g.Limit

\* if g.Limit > 0 && g.Matches >= g.Limit
AtLimit(g) == g.Limit > 0 /\ g.Matches >= g.Limit

\* one round of the inner loop of Reader
grepStep(s) ==
    LET Found(m1) ==
           IF m1 < s.chunkStart THEN [s EXCEPT !.done = TRUE, !.beginText = FALSE]
           ELSE IF AtLimit(s.g)
           THEN [s EXCEPT !.done = TRUE, !.beginText = FALSE, !.returned = TRUE,
                          !.g.Match = TRUE, !.g.Limited = TRUE]
           ELSE IF s.g.L
           THEN [s EXCEPT !.done = TRUE, !.beginText = FALSE, !.returned = TRUE,
                          !.g.Match = TRUE, !.g.Matches = s.g.Matches + 1,
                          !.out = Append(s.out, [kind |-> "name", line |-> << >>,
                                                 at |-> s.g.Matches])]
           ELSE LET lineStart == LastNL(s.buf, s.chunkStart, m1) + 1 + s.chunkStart
                    lineEnd == IF m1 + 1 > s.end THEN s.end ELSE m1 + 1
                IN  [s EXCEPT !.beginText = FALSE,
                              !.g.Match = TRUE, !.g.Matches = s.g.Matches + 1,
                              !.count = IF s.g.C THEN s.count + 1 ELSE s.count,
                              !.out = IF s.g.C THEN s.out
                                      ELSE Append(s.out,
                                                  [kind |-> "line",
                                                   line |-> SubSeq(s.buf, lineStart + 1, lineEnd),
                                                   at |-> s.g.Matches]),
                              !.chunkStart = lineEnd,
                              !.done = ~(lineEnd < s.end)]
    IN  Found(RegexpMatch(s.m, SubSeq(s.buf, s.chunkStart + 1, s.end), s.beginText, TRUE)
              + s.chunkStart)

\* g.Reader(r, name) for a reader that returns the bytes of file
GrepReader(g, m, file) ==
    LET Finish(s) ==
           [g |-> s.g,
            out |-> IF ~s.returned /\ s.g.C /\ s.count > 0
                    THEN Append(s.out, [kind |-> "count", line |-> << >>, at |-> s.count])
                    ELSE s.out]
    IN  Finish(Iterate(grepStep,
                       [g |-> g, m |-> m, buf |-> file, end |-> Len(file), chunkStart |-> 0,
                        beginText |-> TRUE, count |-> 0, out |-> << >>, returned |-> FALSE,
                        done |-> ~(0 < Len(file))], Len(file) + 1))

\* the number of lines of b from position i on that contain the byte a
RECURSIVE MatchingLines(_, _)
MatchingLines(b, i) ==
    IF i > Len(b) THEN 0
    ELSE LET e == IF \E k \in i..Len(b) : b[k] = NL
                  THEN CHOOSE k \in i..Len(b) : b[k] = NL /\ \A j \in i..(k - 1) : b[j] # NL
                  ELSE Len(b)
         IN  (IF \E k \in i..e : b[k] = 97 THEN 1 ELSE 0) + MatchingLines(b, e + 1)

GrepInit ==
    /\ pathSeparator = Slash
    /\ writeVersion = 2
    /\ \E l \in BOOLEAN, c \in BOOLEAN, limit \in 1..MaxGrepLimit :
          mt = [phase |-> "grep", m |-> matcherInit(Compile(Lit(97))),
                g |-> [L |-> l, C |-> c, Limit |-> limit, Match |-> FALSE, Matches |-> 0,
                       Limited |-> FALSE],
                was |-> [Matches |-> 0, Limited |-> FALSE], file |-> << >>, out |-> << >>]
    /\ pt = Idle /\ dc = Idle /\ nm = Idle /\ iw = Idle /\ mg = Idle
    /\ rd = Idle /\ ck = Idle /\ fs = Idle

\* g.Reader(r, name)
GrepRead ==
    /\ mt.phase = "grep"
    /\ \E file \in BoundedSeq(GrepAlphabet, MaxGrepLen) :
          LET Body(r) ==
                 mt' = [mt EXCEPT !.g = r.g, !.out = r.out, !.file = file,
                                  !.was = [Matches |-> mt.g.Matches,
                                           Limited |-> mt.g.Limited]]
          IN  Body(GrepReader(mt.g, mt.m, file))
    /\ UNCHANGED <<pathSeparator, writeVersion, pt, dc, nm, iw, mg, rd, ck, fs>>

NextGrep == GrepRead

SpecGrep == GrepInit /\ [][NextGrep]_vars

\* C21: with Limit > 0, Matches never exceeds Limit, no match is written
\* once Matches has reached Limit, and Limited becomes true only in a call
\* that found a further match after the limit had been reached
C21_LimitKept ==
    mt.phase = "grep" =>
        /\ mt.g.Matches <= mt.g.Limit
        /\ \A k \in 1..Len(mt.out) :
              mt.out[k].kind \in {"line", "name"} => mt.out[k].at < mt.g.Limit
        /\ (mt.g.Limited /\ ~mt.was.Limited) =>
              /\ mt.g.Matches = mt.g.Limit
              /\ IF mt.g.L THEN mt.was.Matches = mt.g.Limit /\ MatchingLines(mt.file, 1) > 0
                 ELSE MatchingLines(mt.file, 1) > mt.g.Limit - mt.was.Matches

\* a call that wrote a match and then stopped at the limit
C21_Witness ==
    /\ mt.phase = "grep"
    /\ mt.g.Limited /\ ~mt.was.Limited
    /\ mt.out # << >>
    /\ mt.g.Matches = mt.g.Limit

(***************************************************************************)
(* The trigram 0xFFFFFF: files with bytes of 0x80 and above scanned by     *)
(* add, and the posting lists of the index that Flush writes for them.     *)
(***************************************************************************)
MaxHighLen == 4

MaxHighAdds == 2

\* a, the UTF-8 bytes 0xC3 and 0xBF, and 0xFF
HighAlphabet == {97, 195, 191, 255}

\* file contents offered to Add: one of 0xFF bytes only, one with them
\* after text, two of valid UTF-8 and one of text
HighSamples ==
    {<<255, 255, 255>>, <<97, 98, 255, 255, 255>>, <<195, 191, 195, 191>>,
     <<97, 195, 191, 191>>, <<97, 98, 99>>}

\* the name given to the file of the k-th call of Add
HighName(k) == <<97, Slash, 97 + k>>

\* one step of a walk over the posting lists of an index in file order: the
\* trigram of the next list, or one more file ID of the current list
postStreamStep(s, v) ==
    LET Delta(x) ==
           IF x.r.st # "ok" THEN [s EXCEPT !.r = x.r, !.done = TRUE, !.ok = FALSE]
           ELSE IF ToInt(x.val) = 0
           THEN [s EXCEPT !.r = clearBits(x.r), !.fresh = TRUE,
                          !.out = Append(s.out, [trigram |-> s.trigram, count |-> s.count]),
                          !.done = s.trigram = invalidTrigram]
           ELSE [s EXCEPT !.r = x.r, !.count = s.count + 1]
    IN  IF s.fresh
        THEN IF Len(s.r.d) < 3 THEN [s EXCEPT !.done = TRUE, !.ok = FALSE]
             ELSE [s EXCEPT !.r = [s.r EXCEPT !.d = Drop(s.r.d, 3)],
                            !.trigram = TrigramAt(s.r.d, 0), !.count = 0, !.fresh = FALSE]
        ELSE Delta(deltaNext(s.r, v))

\* the posting lists of the opened index ix in file order, up to and with
\* the first list of trigram 0xFFFFFF; rest is the number of bytes between
\* that list and the name index
PostStream(ix) ==
    LET Result(s) ==
           [ok |-> s.ok, lists |-> s.out, rest |-> Len(s.r.d)]
        Walk(data) ==
           Result(Iterate(LAMBDA s : postStreamStep(s, ix.version),
                          [r |-> deltaReaderInit(data), trigram |-> 0, count |-> 0,
                           fresh |-> TRUE, out |-> << >>, ok |-> TRUE, done |-> FALSE],
                          8 * Len(data) + 8))
    IN  Walk(SubSeq(ix.d, ix.postData + 1, ix.nameIndex))

SentinelInit ==
    /\ pathSeparator = Slash
    /\ writeVersion \in {1, 2}
    /\ iw = [phase |-> "add", ix |-> Create(writeVersion, npost), calls |-> 0,
             f |-> << >>, accepted |-> FALSE, tris |-> << >>]
    /\ pt = Idle /\ dc = Idle /\ nm = Idle /\ mg = Idle /\ mt = Idle
    /\ rd = Idle /\ ck = Idle /\ fs = Idle

\* the read loop of add over one file
SentinelScan ==
    /\ iw.phase = "add" /\ iw.calls = 0
    /\ \E f \in BoundedSeq(HighAlphabet, MaxHighLen) :
          LET Body(s) ==
                 iw' = [iw EXCEPT !.phase = "scanned", !.f = f, !.accepted = ~s.skip,
                                  !.tris = s.tris]
          IN  Body(ScanFile(f))
    /\ UNCHANGED <<pathSeparator, writeVersion, pt, dc, nm, mg, mt, rd, ck, fs>>

\* ix.Add(name, f)
SentinelAdd ==
    /\ iw.phase = "add" /\ iw.calls < MaxHighAdds /\ ~iw.ix.fatal
    /\ \E f \in HighSamples :
          LET Body(ix) ==
                 iw' = [iw EXCEPT !.ix = ix, !.calls = iw.calls + 1, !.f = f,
                                  !.accepted = ix.numName > iw.ix.numName]
          IN  Body(Add(iw.ix, HighName(iw.calls), f, writeVersion))
    /\ UNCHANGED <<pathSeparator, writeVersion, pt, dc, nm, mg, mt, rd, ck, fs>>

\* ix.Flush(), Open of the written file and a walk over its posting lists
SentinelFlush ==
    /\ iw.phase = "add" /\ ~iw.ix.fatal
    /\ LET Walked(index) ==
              iw' = [phase |-> "open", calls |-> iw.calls, f |-> iw.f,
                     accepted |-> iw.accepted, index |-> index,
                     stream |-> PostStream(index)]
           Opened(d) == Walked(Open(d))
           Flushed(ix) == Opened(ix.main)
       IN  Flushed(Flush(iw.ix, writeVersion))
    /\ UNCHANGED <<pathSeparator, writeVersion, pt, dc, nm, mg, mt, rd, ck, fs>>

NextSentinel == SentinelScan \/ SentinelAdd \/ SentinelFlush

SpecSentinel == SentinelInit /\ [][NextSentinel]_vars

\* C22: a file whose content holds the bytes of the trigram 0xFFFFFF is
\* skipped, and in every index written 0xFFFFFF is the trigram of the last
\* posting list only, which has no file IDs
C22_SentinelOnlyAtEnd ==
    /\ (iw.phase \in {"add", "scanned"} /\ iw.accepted) =>
          invalidTrigram \notin TrigramsOf(iw.f)
    /\ (iw.phase = "scanned" /\ iw.accepted) =>
          \A k \in 1..Len(iw.tris) : iw.tris[k] # invalidTrigram
    /\ iw.phase = "open" =>
          /\ iw.index.ok /\ iw.stream.ok
          /\ Len(iw.stream.lists) = iw.index.numPost
          /\ \A k \in 1..Len(iw.stream.lists) :
                IF k = Len(iw.stream.lists)
                THEN iw.stream.lists[k] = [trigram |-> invalidTrigram, count |-> 0]
                ELSE iw.stream.lists[k].trigram # invalidTrigram
                     /\ iw.stream.lists[k].count > 0
          /\ PostingList(iw.index, invalidTrigram) = << >>

\* an index of two files, the first with 0xFF bytes and skipped, the
\* second of valid UTF-8 with bytes above 0x80 and accepted
C22_Witness ==
    /\ iw.phase = "open"
    /\ iw.calls = 2
    /\ iw.index.ok /\ iw.index.numName = 1
    /\ Len(iw.stream.lists) > 2
    /\ iw.f = <<195, 191, 195, 191>>

(***************************************************************************)
(* Two writers given the same files: ix spills its posting buffer with     *)
(* flushPost at points of the schedule (and in Add when the buffer of      *)
(* npost entries is full), ref has a buffer that never fills and never     *)
(* spills (buildFlushIndex with and without doFlush).                      *)
(***************************************************************************)
MaxSpillAdds == 2

MaxSpills == 2

\* a capacity of ix.post that the files of a run never fill
SpillFreeCap == 1024

\* file contents: abcabcd, bcde, abc
SpillSamples == {<<97, 98, 99, 97, 98, 99, 100>>, <<98, 99, 100, 101>>, <<97, 98, 99>>}

SpillInit ==
    /\ pathSeparator = Slash
    /\ writeVersion \in {1, 2}
    /\ iw = [phase |-> "add", ix |-> Create(writeVersion, npost),
             ref |-> Create(writeVersion, SpillFreeCap), calls |-> 0, spills |-> 0,
             empty |-> 0]
    /\ pt = Idle /\ dc = Idle /\ nm = Idle /\ mg = Idle /\ mt = Idle
    /\ rd = Idle /\ ck = Idle /\ fs = Idle

\* ix.Add(name, file) on both writers
SpillAdd ==
    /\ iw.phase = "add" /\ iw.calls < MaxSpillAdds
    /\ \E f \in SpillSamples :
          LET Body(ix, ref) == iw' = [iw EXCEPT !.ix = ix, !.ref = ref, !.calls = iw.calls + 1]
          IN  Body(Add(iw.ix, HighName(iw.calls), f, writeVersion),
                   Add(iw.ref, HighName(iw.calls), f, writeVersion))
    /\ UNCHANGED <<pathSeparator, writeVersion, pt, dc, nm, mg, mt, rd, ck, fs>>

\* ix.flushPost() between Add calls or before Flush; empty counts the
\* spills of an empty buffer
SpillPost ==
    /\ iw.phase = "add" /\ iw.spills < MaxSpills
    /\ iw' = [iw EXCEPT !.ix = flushPost(iw.ix, writeVersion), !.spills = iw.spills + 1,
                        !.empty = IF iw.ix.post = << >> THEN iw.empty + 1 ELSE iw.empty]
    /\ UNCHANGED <<pathSeparator, writeVersion, pt, dc, nm, mg, mt, rd, ck, fs>>

\* ix.Flush() on both writers
SpillFlush ==
    /\ iw.phase = "add"
    /\ LET Body(ix, ref) ==
              iw' = [phase |-> "done", out |-> ix.main, want |-> ref.main,
                     chunks |-> Len(iw.ix.postEnds), calls |-> iw.calls,
                     spills |-> iw.spills, empty |-> iw.empty]
       IN  Body(Flush(iw.ix, writeVersion), Flush(iw.ref, writeVersion))
    /\ UNCHANGED <<pathSeparator, writeVersion, pt, dc, nm, mg, mt, rd, ck, fs>>

NextSpill == SpillAdd \/ SpillPost \/ SpillFlush

SpecSpill == SpillInit /\ [][NextSpill]_vars

\* C23: the bytes of the index that Flush writes are those of the run with
\* no spill, whatever the points at which flushPost spilled the posting
\* buffer, a spill of an empty buffer included
C23_SpillIndependent ==
    iw.phase = "done" => iw.out = iw.want /\ Open(iw.out).ok

\* an index of two files written after a spill between the Add calls and
\* a spill of an empty buffer
C23_Witness ==
    /\ iw.phase = "done"
    /\ iw.calls = 2 /\ iw.spills = 2 /\ iw.empty = 1 /\ iw.chunks >= 2
    /\ Open(iw.out).numPost > 4

(***************************************************************************)
(* The merged list of paths of Merge, for root lists in ascending order.   *)
(***************************************************************************)
MaxRoots == 2

\* a, a/b, a.b, ab, b and a\b
RootSamples ==
    {<<97>>, <<97, 47, 98>>, <<97, 46, 98>>, <<97, 98>>, <<98>>, <<97, 92, 98>>}

\* the root lists of an index: at most MaxRoots paths in ascending order
RootLists ==
    {R \in BoundedSeq(RootSamples, MaxRoots) :
        \A k \in 1..(Len(R) - 1) : Compare(R[k], R[k + 1]) <= 0}

\* the ordered merge of two ascending lists, an element of R1 before the
\* elements of R2 equal to it
OrderedMerge(R1, R2) ==
    LET At1(i) == i + Cardinality({j \in 1..Len(R2) : Compare(R2[j], R1[i]) < 0})
        At2(j) == j + Cardinality({i \in 1..Len(R1) : Compare(R1[i], R2[j]) <= 0})
    IN  [k \in 1..(Len(R1) + Len(R2)) |->
            IF \E i \in 1..Len(R1) : At1(i) = k
            THEN R1[CHOOSE i \in 1..Len(R1) : At1(i) = k]
            ELSE R2[CHOOSE j \in 1..Len(R2) : At2(j) = k]]

\* the paths of R kept when a path is omitted exactly if Covered(path, last)
\* holds for the path last kept before it
RECURSIVE KeepRoots(_, _, _)
KeepRoots(Covered(_, _), R, last) ==
    IF R = << >> THEN << >>
    ELSE IF Covered(R[1], last) THEN KeepRoots(Covered, Tail(R), last)
    ELSE <<R[1]>> \o KeepRoots(Covered, Tail(R), R[1])

RootsInit ==
    /\ pathSeparator \in {Slash, Backslash}
    /\ writeVersion = 2
    /\ mg = [phase |-> "roots"]
    /\ pt = Idle /\ dc = Idle /\ nm = Idle /\ iw = Idle /\ mt = Idle
    /\ rd = Idle /\ ck = Idle /\ fs = Idle

\* the loop of Merge over ix1.Roots() and ix2.Roots()
RootsMerge ==
    /\ mg.phase = "roots"
    /\ \E R1 \in RootLists, R2 \in RootLists :
          mg' = [phase |-> "merged", R1 |-> R1, R2 |-> R2,
                 out |-> mergeRoots(R1, R2, <<255>>)]
    /\ UNCHANGED <<pathSeparator, writeVersion, pt, dc, nm, iw, mt, rd, ck, fs>>

NextRoots == RootsMerge

SpecRoots == RootsInit /\ [][NextRoots]_vars

\* C24: the root list Merge writes is the ascending ordered merge of the
\* root lists of A and B, A's first on equal roots, without the roots that
\* have the root written just before them as a path-prefix or are equal to it
C24_RootsUnderParent ==
    mg.phase = "merged" =>
        /\ mg.out = KeepRoots(LAMBDA p, last : HasPathPrefix(p, last),
                              OrderedMerge(mg.R1, mg.R2), <<255>>)
        /\ \A k \in 1..(Len(mg.out) - 1) : Compare(mg.out[k], mg.out[k + 1]) <= 0

\* C24 as stated: the roots omitted are those that are a path-prefix of, or
\* equal to, the root written just before them
C24_RootsPrefixOfLast ==
    mg.phase = "merged" =>
        mg.out = KeepRoots(LAMBDA p, last : HasPathPrefix(last, p),
                           OrderedMerge(mg.R1, mg.R2), <<255>>)

\* the roots a of A and a/b, b of B: a/b is omitted, under a
C24_Witness ==
    /\ mg.phase = "merged"
    /\ mg.R1 = <<(<<97>>)>> /\ mg.R2 = <<(<<97, 47, 98>>), (<<98>>)>>
    /\ mg.out = <<(<<97>>), (<<98>>)>>

(***************************************************************************)
(* Files that add skips.  The limits of 1<<30 bytes, 2000 bytes a line and *)
(* 20000 trigrams are beyond the files TLC can build, so the writer is     *)
(* also run under limits scaled down to those of SkipLimits.               *)
(***************************************************************************)
MaxSkipAdds == 3

MaxSkipLen == 6

MaxSkipLine == 4

MaxSkipTrigrams == 3

SkipLimits == [file |-> MaxSkipLen, line |-> MaxSkipLine, trigrams |-> MaxSkipTrigrams]

\* file contents under the limits lim: text, text with a NUL, text that is
\* not UTF-8, a line at the limit and one over it, a file at the limit of
\* trigrams and, under the scaled limits, files one byte, one line byte and
\* one trigram over the limits
SkipSamples(lim) ==
    {<<97, 98, 99>>, <<98, 99, 100, NL>>, <<97, 98, 0, 99>>, <<97, 98, 99, 128>>}
    \cup (IF lim = Limits THEN {}
          ELSE {[i \in 1..lim.line |-> IF i = lim.line THEN NL ELSE 97],
                [i \in 1..(lim.line + 1) |-> IF i = lim.line + 1 THEN NL ELSE 97],
                [i \in 1..(lim.file + 1) |-> IF i % 3 = 0 THEN NL ELSE 97],
                [i \in 1..(lim.trigrams + 2) |-> IF i % 4 = 0 THEN NL ELSE 96 + i],
                [i \in 1..(lim.trigrams + 3) |-> IF i % 4 = 0 THEN NL ELSE 96 + i]})

\* the reasons for which f is to be skipped under the limits lim; a line
\* is counted with the newline that ends it
SkipCauses(f, lim) ==
    (IF \E i \in 1..Len(f) : f[i] = 0 THEN {"NUL"} ELSE {})
    \cup (IF \E i \in 1..Len(f) : ~validUTF8(IF i = 1 THEN 0 ELSE f[i - 1], f[i])
          THEN {"UTF-8"} ELSE {})
    \cup (IF Len(f) > lim.file THEN {"long"} ELSE {})
    \cup (IF \E i \in 1..Len(f) : \E j \in i..Len(f) :
                j - i + 1 > lim.line /\ \A k \in i..(j - 1) : f[k] # NL
          THEN {"line"} ELSE {})
    \cup (IF Cardinality(TrigramsOf(f)) > lim.trigrams THEN {"trigrams"} ELSE {})

\* the posting entries the writer holds, in its buffer and in the chunks
\* spilled to its temporary file
HeldEntries(ix, v) ==
    {ix.post[k] : k \in 1..Len(ix.post)}
    \cup UNION {LET e == AllPost(SubSeq(ix.postFile,
                                        (IF c = 1 THEN 0 ELSE ix.postEnds[c - 1]) + 1,
                                        ix.postEnds[c]), v)
                IN  {e[k] : k \in 1..Len(e)} : c \in 1..Len(ix.postEnds)}

SkipInit ==
    /\ pathSeparator = Slash
    /\ writeVersion \in {1, 2}
    /\ \E lim \in {Limits, SkipLimits} :
          iw = [phase |-> "add", ix |-> Create(writeVersion, npost), lim |-> lim,
                calls |-> 0, was |-> Create(writeVersion, npost), f |-> << >>,
                valid |-> TRUE, err |-> "nil", accepted |-> << >>, causes |-> {}]
    /\ pt = Idle /\ dc = Idle /\ nm = Idle /\ mg = Idle /\ mt = Idle
    /\ rd = Idle /\ ck = Idle /\ fs = Idle

\* ix.Add(name, f); accepted lists the files that were not to be skipped
SkipAdd ==
    /\ iw.phase = "add" /\ iw.calls < MaxSkipAdds
    /\ \E f \in SkipSamples(iw.lim), name \in {HighName(iw.calls), <<97, NL>>} :
          /\ isValidName(name) \/ f = <<97, 98, 99>>
          /\ iw' = [iw EXCEPT !.ix = AddLim(iw.ix, name, f, writeVersion, iw.lim),
                              !.was = iw.ix, !.f = f, !.calls = iw.calls + 1,
                              !.valid = isValidName(name), !.err = AddErr(name),
                              !.causes = SkipCauses(f, iw.lim),
                              !.accepted = IF isValidName(name) /\ SkipCauses(f, iw.lim) = {}
                                           THEN Append(iw.accepted, f) ELSE iw.accepted]
    /\ UNCHANGED <<pathSeparator, writeVersion, pt, dc, nm, mg, mt, rd, ck, fs>>

\* ix.flushPost()
SkipSpill ==
    /\ iw.phase = "add" /\ iw.ix.post # << >> /\ iw.calls < MaxSkipAdds
    /\ iw' = [iw EXCEPT !.ix = flushPost(iw.ix, writeVersion), !.was = flushPost(iw.ix, writeVersion),
                        !.causes = {}, !.valid = TRUE, !.err = "nil"]
    /\ UNCHANGED <<pathSeparator, writeVersion, pt, dc, nm, mg, mt, rd, ck, fs>>

NextSkip == SkipAdd \/ SkipSpill

SpecSkip == SkipInit /\ [][NextSkip]_vars

RECURSIVE SumLen(_)
SumLen(fs1) == IF fs1 = << >> THEN 0 ELSE Len(Head(fs1)) + SumLen(Tail(fs1))

\* C25: a call of Add for a file that is skipped returns no error and
\* leaves the writer as it was, so that the file count and the byte total
\* are those of the accepted files, which have consecutive file IDs, and
\* every posting entry held is one of an accepted file
C25_SkipLeavesWriter ==
    iw.phase = "add" =>
        /\ (iw.valid /\ iw.causes # {}) => iw.err = "nil" /\ iw.ix = iw.was
        /\ ~iw.ix.fatal
        /\ iw.ix.numName = Len(iw.accepted)
        /\ iw.ix.totalBytes = SumLen(iw.accepted)
        /\ HeldEntries(iw.ix, writeVersion) =
              UNION {{makePostEntry(t, k - 1) : t \in TrigramsOf(iw.accepted[k])} :
                        k \in 1..Len(iw.accepted)}

\* a third call that accepts a file and gives it the file ID 1, one of the
\* two calls before it having left the writer as it was
C25_Witness ==
    /\ iw.phase = "add" /\ iw.calls = 3
    /\ iw.was.numName = 1 /\ iw.ix.numName = 2
    /\ Len(iw.accepted) = 2 /\ iw.accepted[2] = iw.f /\ iw.causes = {}
    /\ \E t \in TrigramsOf(iw.f) : makePostEntry(t, 1) \in HeldEntries(iw.ix, writeVersion)
    /\ iw.lim = SkipLimits

(***************************************************************************)
(* A posting list written by the deltaWriter of format 2 (TestFileList64), *)
(* against the gamma code laid out bit by bit.                             *)
(***************************************************************************)
MaxGammaIds == 3

\* differences between successive file IDs: 1, 2, 3, the values around
\* deltaZeroEnc, one of 9 bits and one of 29 bits
GammaDeltas == {1, 2, 3, 15, 16, 17, 300, 268435461}

\* floor(log2 x) for x > 0
RECURSIVE FloorLog2(_)
FloorLog2(x) == IF x < 2 THEN 0 ELSE 1 + FloorLog2(x \div 2)

\* the gamma code of x > 0, first bit first: floor(log2 x) zero bits, a 1
\* bit and the low floor(log2 x) bits of x, lowest first
GammaBits(x) ==
    [i \in 1..FloorLog2(x) |-> 0] \o <<1>>
    \o [i \in 1..FloorLog2(x) |-> (x \div Pow2(i - 1)) % 2]

\* the value coded for a difference
GammaCoded(delta) ==
    IF delta = 0 THEN deltaZeroEnc ELSE IF delta >= deltaZeroEnc THEN delta + 1 ELSE delta

\* the bits of the list ids, from the file ID last on, and of its end
RECURSIVE ListBits(_, _)
ListBits(ids, last) ==
    IF ids = << >> THEN GammaBits(GammaCoded(0))
    ELSE GammaBits(GammaCoded(Head(ids) - last)) \o ListBits(Tail(ids), Head(ids))

\* bits packed into bytes, the first bit lowest, the last byte filled with zeros
PackBits(bits) ==
    [k \in 1..((Len(bits) + 7) \div 8) |->
        LET Bit(j) == IF 8 * (k - 1) + j <= Len(bits) THEN bits[8 * (k - 1) + j] ELSE 0
        IN  Bit(1) + 2 * Bit(2) + 4 * Bit(3) + 8 * Bit(4) + 16 * Bit(5) + 32 * Bit(6)
            + 64 * Bit(7) + 128 * Bit(8)]

GammaInit ==
    /\ pathSeparator = Slash
    /\ writeVersion = 2
    /\ dc = [phase |-> "write", ids |-> << >>, last |-> -1, w |-> deltaWriterInit(<<>>)]
    /\ pt = Idle /\ nm = Idle /\ iw = Idle /\ mg = Idle /\ mt = Idle
    /\ rd = Idle /\ ck = Idle /\ fs = Idle

\* w.Write(v - last); last = v
GammaWrite ==
    /\ dc.phase = "write" /\ dc.w.ok /\ Len(dc.ids) < MaxGammaIds
    /\ \E delta \in GammaDeltas :
          dc' = [dc EXCEPT !.ids = Append(dc.ids, dc.last + delta),
                           !.last = dc.last + delta,
                           !.w = deltaWrite(dc.w, FromInt(delta), writeVersion)]
    /\ UNCHANGED <<pathSeparator, writeVersion, pt, nm, iw, mg, mt, rd, ck, fs>>

\* w.Write(0); w.Flush()
GammaFlush ==
    /\ dc.phase = "write" /\ dc.w.ok
    /\ dc' = [dc EXCEPT !.phase = "flushed",
                        !.w = deltaFlush(deltaWrite(dc.w, Zero64, writeVersion))]
    /\ UNCHANGED <<pathSeparator, writeVersion, pt, nm, iw, mg, mt, rd, ck, fs>>

NextGamma == GammaWrite \/ GammaFlush

SpecGamma == GammaInit /\ [][NextGamma]_vars

MaxIdRoots == 2

\* a/x, a/y, ab/x, b/x, c
IdNames == {<<97, 47, 120>>, <<97, 47, 121>>, <<97, 98, 47, 120>>, <<98, 47, 120>>, <<99>>}

\* a, ab, b, c
IdRoots == {<<97>>, <<97, 98>>, <<98>>, <<99>>}

\* the lists of paths from S of at most n paths in strictly ascending order
AscendingLists(S, n) ==
    {R \in BoundedSeq(S, n) : \A k \in 1..(Len(R) - 1) : Compare(R[k], R[k + 1]) < 0}

IdmapInit ==
    /\ pathSeparator = Slash
    /\ writeVersion = 2
    /\ \E N1 \in AscendingLists(IdNames, Cardinality(IdNames)),
          N2 \in AscendingLists(IdNames, Cardinality(IdNames)),
          roots \in AscendingLists(IdRoots, MaxIdRoots) :
          mg = [phase |-> "roots", N1 |-> N1, N2 |-> N2,
                s |-> [roots |-> roots, k |-> 1, i1 |-> 0, i2 |-> 0, new |-> 0,
                       map1 |-> << >>, map2 |-> << >>, st |-> "ok", done |-> roots = << >>],
                numName |-> 0, got |-> << >>]
    /\ pt = Idle /\ dc = Idle /\ nm = Idle /\ iw = Idle /\ mt = Idle
    /\ rd = Idle /\ ck = Idle /\ fs = Idle

\* one round of the loop over ix2.Roots()
IdmapRoot ==
    /\ mg.phase = "roots" /\ ~mg.s.done
    /\ mg' = [mg EXCEPT !.s = idmapStep(mg.s, mg.N1, mg.N2, Len(mg.N1), Len(mg.N2))]
    /\ UNCHANGED <<pathSeparator, writeVersion, pt, dc, nm, iw, mt, rd, ck, fs>>

\* after the loop: the rest of ix1, and the panic when names of ix2 are left
IdmapRest ==
    /\ mg.phase = "roots" /\ mg.s.done /\ mg.s.st = "ok"
    /\ mg' = IF mg.s.i2 < Len(mg.N2) THEN [mg EXCEPT !.phase = "panic"]
             ELSE IF mg.s.i1 < Len(mg.N1)
             THEN [mg EXCEPT !.phase = "mapped",
                             !.s.map1 = Append(mg.s.map1, [lo |-> mg.s.i1, hi |-> Len(mg.N1),
                                                          new |-> mg.s.new]),
                             !.s.new = mg.s.new + (Len(mg.N1) - mg.s.i1),
                             !.numName = mg.s.new + (Len(mg.N1) - mg.s.i1)]
             ELSE [mg EXCEPT !.phase = "mapped", !.numName = mg.s.new]
    /\ UNCHANGED <<pathSeparator, writeVersion, pt, dc, nm, iw, mt, rd, ck, fs>>

\* one round of the loop that writes the names: got lists the names collected
IdmapNames ==
    /\ mg.phase = "mapped" /\ Len(mg.got) # mg.numName
    /\ LET m1 == mg.s.map1
           m2 == mg.s.map2
       IN  mg' = IF m1 # << >> /\ m1[1].new = Len(mg.got)
                 THEN [mg EXCEPT !.got = mg.got \o SubSeq(mg.N1, m1[1].lo + 1, m1[1].hi),
                                 !.s.map1 = Tail(m1)]
                 ELSE IF m2 # << >> /\ m2[1].new = Len(mg.got)
                 THEN [mg EXCEPT !.got = mg.got \o SubSeq(mg.N2, m2[1].lo + 1, m2[1].hi),
                                 !.s.map2 = Tail(m2)]
                 ELSE [mg EXCEPT !.phase = "panic"]
    /\ UNCHANGED <<pathSeparator, writeVersion, pt, dc, nm, iw, mt, rd, ck, fs>>

NextIdmap == IdmapRoot \/ IdmapRest \/ IdmapNames

SpecIdmap == IdmapInit /\ [][NextIdmap]_vars

\* the new IDs of the range r
TargetsOf(r) == r.new..(r.new + (r.hi - r.lo) - 1)

\* the ranges of m have source intervals that are not empty, lie in 0..n
\* and ascend without overlap
SourcesAscend(m, n) ==
    /\ \A k \in 1..Len(m) : 0 <= m[k].lo /\ m[k].lo < m[k].hi /\ m[k].hi <= n
    /\ \A k \in 1..(Len(m) - 1) : m[k].hi <= m[k + 1].lo

\* C27: after each root of ix2, and after the loop, the new IDs of the
\* ranges of map1 and map2 are pairwise disjoint and make up 0..new-1, and
\* the sources of each map ascend without overlap; the loop that writes the
\* names then always finds a range at the current count
C27_RangesPartition ==
    /\ (mg.phase = "roots" /\ mg.s.st = "ok") \/ (mg.phase = "mapped" /\ mg.got = << >>) =>
          LET all == mg.s.map1 \o mg.s.map2
          IN  /\ UNION {TargetsOf(all[k]) : k \in 1..Len(all)} = 0..(mg.s.new - 1)
              /\ \A j, k \in 1..Len(all) :
                    j # k => TargetsOf(all[j]) \cap TargetsOf(all[k]) = {}
              /\ SourcesAscend(mg.s.map1, Len(mg.N1))
              /\ SourcesAscend(mg.s.map2, Len(mg.N2))
    /\ mg.phase = "mapped" => mg.numName = mg.s.new
    /\ mg.phase = "panic" => mg.got = << >> /\ mg.s.i2 < Len(mg.N2)

\* both maps hold two ranges and every name has been written
C27_Witness ==
    /\ mg.phase = "mapped"
    /\ Len(mg.got) = mg.numName /\ mg.numName >= 5
    /\ mg.s.map1 = << >> /\ mg.s.map2 = << >>
    /\ Len(mg.s.roots) = 2
    /\ \E k \in 1..(Len(mg.got) - 1) : Compare(mg.got[k], mg.got[k + 1]) < 0

\* the loop over the posting lists: no round ends in the panic of "no
\* progress", every round but the last leaves one of the two readers at a
\* larger trigram, and the loop ends when both readers are past their last
\* entry
LoopAdvances ==
    mg.phase = "loop" =>
        /\ mg.loop.st = "ok"
        /\ (mg.rounds > 0 /\ ~mg.loop.done) =>
              mg.loop.r1.trigram > mg.was.t1 \/ mg.loop.r2.trigram > mg.was.t2
        /\ mg.loop.done =>
              /\ mg.loop.r1.trigram = endOfTrigrams /\ mg.loop.r1.triNum >= mg.x.numPost
              /\ mg.loop.r2.trigram = endOfTrigrams /\ mg.loop.r2.triNum >= mg.y.numPost
        /\ mg.rounds <= mg.x.numPost + mg.y.numPost + 1

\* the sources are indexes that an IndexWriter wrote
LoopOfWritten == mg.a <= Len(MergeSamples) \/ mg.b <= Len(MergeSamples)

\* the loop of Merge advances when one of the sources is not itself the
\* output of Merge
AdvancesWhenWritten == LoopOfWritten => LoopAdvances

\* C28: for two valid indexes the loop of Merge over the posting lists
\* ends: every round advances the trigram of one of the two readers, "no
\* progress" is never reached, and the loop exits when both readers are
\* past their last entry
C28_PostingLoopEnds == LoopAdvances

(***************************************************************************)
(* The matcher with its memory: the dstates it has allocated (objs), the   *)
(* map m.dstate from encodings to them, and the package variable dmatch.   *)
(* A *dstate is NilState, DmatchState for &dmatch, or the position of the  *)
(* dstate in objs.  The next tables are held for the bytes of CacheBytes.  *)
(***************************************************************************)
MaxCacheLen == 3

CacheBytes == {97, 98, NL}

\* the expressions compiled: ab, a*b, (?m)a$, \Aa, \ba, a\nb
CacheRegexes == {1, 3, 5, 7, 9, 14}

\* buffers scanned before the scan that is compared: ab\nab, aab\nba, b\n\na
WarmSamples == {<<97, 98, NL, 97, 98>>, <<97, 97, 98, NL, 98, 97>>, <<98, NL, NL, 97>>}

NilState == -1

DmatchState == 0

\* dmatch as its declaration leaves it, every entry of next nil
dmatchBare ==
    [enc |-> enc([q |-> << >>, flag |-> {}]), matchNL |-> TRUE, matchEOT |-> TRUE,
     next |-> [c \in CacheBytes |-> NilState]]

\* dmatch after the init function of the package
dmatchInit ==
    [enc |-> enc([q |-> << >>, flag |-> {}]), matchNL |-> TRUE, matchEOT |-> TRUE,
     next |-> [c \in CacheBytes |-> IF c # NL THEN DmatchState ELSE NilState]]

\* the dstate that d points to in the memory h
StateAt(h, d) == IF d = DmatchState THEN h.dm ELSE h.objs[d]

\* d.next[c] = d1; h.refills counts the writes to an entry that was not nil
\* and h.dmWrites the writes to dmatch
SetNext(h, d, c, d1) ==
    IF d = DmatchState
    THEN [h EXCEPT !.dm.next[c] = d1, !.dmWrites = h.dmWrites + 1,
                   !.refills = IF h.dm.next[c] # NilState THEN h.refills + 1 ELSE h.refills]
    ELSE [h EXCEPT !.objs[d].next[c] = d1,
                   !.refills = IF h.objs[d].next[c] # NilState THEN h.refills + 1
                               ELSE h.refills]

\* a cache that takes the first dstate with the instructions of e,
\* whatever its flags
RECURSIVE cacheFirst(_, _, _)
RECURSIVE computeNextIn(_, _, _, _)
cacheFirst(h, prog, e) ==
    LET k == Len(h.objs) + 1
        EOT(x) == [h |-> [x.h EXCEPT !.objs[k].matchEOT = (x.d = DmatchState)], d |-> k]
        Line(x) == EOT(computeNextIn([x.h EXCEPT !.objs[k].matchNL = (x.d = DmatchState)],
                                     prog, k, endText))
    IN  IF \E j \in 1..Len(h.objs) : h.objs[j].enc.ids = e.ids
        THEN [h |-> h,
              d |-> CHOOSE j \in 1..Len(h.objs) :
                       /\ h.objs[j].enc.ids = e.ids
                       /\ \A i \in 1..(j - 1) : h.objs[i].enc.ids # e.ids]
        ELSE Line(computeNextIn([h EXCEPT !.objs = Append(h.objs,
                                                [enc |-> e, matchNL |-> FALSE, matchEOT |-> FALSE,
                                                 next |-> [c \in CacheBytes |-> NilState]]),
                                          !.map = (e :> k) @@ h.map],
                                prog, k, NL))

\* m.cache(z) for the nstate of encoding e, in the memory h: the memory
\* afterwards and the *dstate returned
RECURSIVE cacheIn(_, _, _)
cacheIn(h, prog, e) ==
    LET k == Len(h.objs) + 1
        EOT(x) == [h |-> [x.h EXCEPT !.objs[k].matchEOT = (x.d = DmatchState)], d |-> k]
        Line(x) == EOT(computeNextIn([x.h EXCEPT !.objs[k].matchNL = (x.d = DmatchState)],
                                     prog, k, endText))
    IN  IF e \in DOMAIN h.map THEN [h |-> h, d |-> h.map[e]]
        ELSE Line(computeNextIn([h EXCEPT !.objs = Append(h.objs,
                                                [enc |-> e, matchNL |-> FALSE, matchEOT |-> FALSE,
                                                 next |-> [c \in CacheBytes |-> NilState]]),
                                          !.map = (e :> k) @@ h.map],
                                prog, k, NL))

\* m.computeNext(d, c) in the memory h
computeNextIn(h, prog, d, c) ==
    LET Found(r) == IF r.dmatch THEN [h |-> h, d |-> DmatchState]
                    ELSE cacheIn(h, prog, r.enc)
    IN  Found(computeNext(prog, [dmatch |-> d = DmatchState, enc |-> StateAt(h, d).enc], c))

\* m.init(prog): the matcher and the memory afterwards
matcherInitIn(prog) ==
    LET Line(x, y) == [prog |-> prog, start |-> x.d, startLine |-> y.d, h |-> y.h]
        Text(x) ==
           Line(x, cacheIn(x.h, prog, enc([q |-> addq(prog, << >>, prog.Start, {"BeginLine"}),
                                           flag |-> {"BOL"}])))
    IN  Text(cacheIn([objs |-> << >>, map |-> [e \in {} |-> 0], dm |-> dmatchInit,
                      dmWrites |-> 0, refills |-> 0],
                     prog, enc([q |-> addq(prog, << >>, prog.Start, {"BeginLine", "BeginText"}),
                                flag |-> {"BOL", "BOT"}])))

\* one round of the loop of match in the memory s.h, for the byte b[s.i + 1]
matchStepIn(m, b, s) ==
    LET c == b[s.i + 1]
        d1 == StateAt(s.h, s.d).next[c]
        Go(h, d) == [s EXCEPT !.h = h, !.d = d, !.i = s.i + 1, !.done = s.i + 1 = Len(b)]
        Fill(x) == Go(SetNext(x.h, s.d, c, x.d), x.d)
    IN  IF d1 # NilState THEN Go(s.h, d1)
        ELSE IF c = NL
        THEN IF StateAt(s.h, s.d).matchNL THEN [s EXCEPT !.end = s.i, !.done = TRUE]
             ELSE Fill([h |-> s.h, d |-> m.startLine])
        ELSE Fill(computeNextIn(s.h, m.prog, s.d, c))

\* m.match(b, beginText, endText) in the memory h: the value returned and
\* the memory afterwards
matchIn(h, m, b, beginText, atEnd) ==
    LET Result(s) ==
           [h |-> s.h,
            end |-> IF s.end >= 0 THEN s.end
                    ELSE IF StateAt(s.h, s.d).matchNL \/ (atEnd /\ StateAt(s.h, s.d).matchEOT)
                    THEN Len(b)
                    ELSE -1]
    IN  Result(Iterate(LAMBDA s : matchStepIn(m, b, s),
                       [h |-> h, d |-> IF beginText THEN m.start ELSE m.startLine, i |-> 0,
                        end |-> -1, done |-> b = << >>], Len(b)))

CacheInit ==
    /\ pathSeparator = Slash
    /\ writeVersion = 2
    /\ \E k \in CacheRegexes :
          LET Body(m) ==
                 mt = [phase |-> "ready", m |-> [prog |-> m.prog, start |-> m.start,
                                                startLine |-> m.startLine],
                       new |-> m.h, h |-> m.h, was |-> m.h, b |-> << >>,
                       beginText |-> FALSE, atEnd |-> FALSE, end |-> -1, fresh |-> -1,
                       warm |-> 0]
          IN  Body(matcherInitIn(Compile(RegexSamples[k])))
    /\ pt = Idle /\ dc = Idle /\ nm = Idle /\ iw = Idle /\ mg = Idle
    /\ rd = Idle /\ ck = Idle /\ fs = Idle

\* one or two scans that fill in next tables: m.match(b, beginText, true)
CacheWarm ==
    /\ mt.phase = "ready" /\ mt.warm < 2
    /\ \E b \in WarmSamples, beginText \in BOOLEAN :
          mt' = [mt EXCEPT !.h = matchIn(mt.h, mt.m, b, beginText, TRUE).h,
                           !.was = mt.h, !.warm = mt.warm + 1]
    /\ UNCHANGED <<pathSeparator, writeVersion, pt, dc, nm, iw, mg, rd, ck, fs>>

\* m.match(b, beginText, endText) on the matcher as the scans before have
\* left it; fresh is what a second matcher, just initialised, returns for
\* the same call: the two have their own dstates and share dmatch
CacheMatch ==
    /\ mt.phase = "ready" /\ mt.warm > 0
    /\ \E b \in BoundedSeq(CacheBytes, MaxCacheLen), beginText \in BOOLEAN, atEnd \in BOOLEAN :
          LET Both(r, f) ==
                 mt' = [mt EXCEPT !.phase = "scanned", !.was = mt.h, !.b = b,
                                  !.h = [r.h EXCEPT !.dm = f.h.dm, !.dmWrites = f.h.dmWrites],
                                  !.beginText = beginText, !.atEnd = atEnd, !.end = r.end,
                                  !.fresh = f.end]
              Body(r) ==
                 Both(r, matchIn([mt.new EXCEPT !.dm = r.h.dm, !.dmWrites = r.h.dmWrites],
                                 mt.m, b, beginText, atEnd))
          IN  Body(matchIn(mt.h, mt.m, b, beginText, atEnd))
    /\ UNCHANGED <<pathSeparator, writeVersion, pt, dc, nm, iw, mg, rd, ck, fs>>

NextCache == CacheWarm \/ CacheMatch

SpecCache == CacheInit /\ [][NextCache]_vars

\* C29: what match returns does not depend on the scans before: no entry
\* of a next table is changed once it is filled in, no two dstates of the
\* matcher have the same encoding, and the matcher returns what a matcher
\* just initialised returns
C29_MatchForgetsScans ==
    /\ mt.h.refills = 0
    /\ \A c \in CacheBytes : \A k \in 1..Len(mt.was.objs) :
          mt.was.objs[k].next[c] # NilState => mt.h.objs[k].next[c] = mt.was.objs[k].next[c]
    /\ \A j, k \in 1..Len(mt.h.objs) : mt.h.objs[j].enc = mt.h.objs[k].enc => j = k
    /\ \A k \in 1..Len(mt.h.objs) : mt.h.map[mt.h.objs[k].enc] = k
    /\ mt.phase = "scanned" =>
          /\ mt.end = mt.fresh
          /\ mt.end = match(matcherInit(mt.m.prog), mt.b, mt.beginText, mt.atEnd)

\* a scan that found its transitions filled in by the scans before and
\* returned a match
C29_Witness ==
    /\ mt.phase = "scanned" /\ mt.warm = 2
    /\ Len(mt.b) = 3 /\ mt.end >= 0
    /\ mt.h = mt.was /\ mt.h # mt.new
    /\ \E k \in 1..Len(mt.h.objs) : \E c \in CacheBytes : mt.h.objs[k].next[c] > 0

\* C30: no scan writes to dmatch after the init function of the package:
\* its next table, its flags and its encoding stay as init left them, so
\* that two matchers, each with its own dstates, share nothing they write
C30_DmatchNeverWritten ==
    /\ mt.h.dmWrites = 0
    /\ mt.h.dm = dmatchInit
    /\ mt.new.dm = dmatchInit

\* a scan of aba for the expression ab: the last byte is read in dmatch
C30_Witness ==
    /\ mt.phase = "scanned"
    /\ mt.m.prog = Compile(RegexSamples[1])
    /\ mt.b = <<97, 98, 97>> /\ mt.end = 3 /\ mt.fresh = 3
====
